---------------------------- MODULE Spec2Model ----------------------------
(***************************************************************************)
(* typed-notion: schema definition, creation-time validation and runtime   *)
(* value validation.                                                       *)
(*                                                                         *)
(* JavaScript values are tagged records.  A string is a sequence of        *)
(* one-character strings, so that length, regular expressions and trim()   *)
(* are computed character by character.  A plain object is a record whose  *)
(* own properties are its fields (next to the tag "kind"); the properties  *)
(* map of a schema literal keeps its entries as a sequence in the order    *)
(* the literal declares them.                                              *)
(***************************************************************************)
EXTENDS Integers, Sequences, FiniteSets, TLC

VARIABLES
    candidate,   \* the schema literal the caller passes to the library
    created,     \* outcome of createTypedSchema(candidate)
    handle,      \* the TypedSchema instance it returned, or NoHandle
    result,      \* outcome of validateSchemaStructure(candidate, config)
    config,      \* the ValidationConfig of that call
    arg,         \* the (propertyName, value) pair the caller validates
    predicate,   \* outcome of the bound predicate on arg
    assertion,   \* outcome of validatePropertyValue on arg
    now,         \* the clock new Date() and Date.now() read
    wrapped,     \* outcome of validateSchema(candidate, config)
    peer,        \* a second TypedSchema instance, or NoHandle
    observation, \* the last call of a handle method: handle, method, input, outcome
    checked,     \* the last call of a rule of the structural validator: rule, input, errors
    monitor,     \* the PerformanceMonitor singleton
    history,     \* what was recorded since the last reset (history variable)
    measured     \* the last call of the metrics API and its outcome

vars == <<candidate, created, handle, result, config, arg, predicate, assertion, now,
          wrapped, peer, observation,
                   checked, monitor, history, measured>>

-----------------------------------------------------------------------------
(* JavaScript values *)

Undefined == [kind |-> "undefined"]
Null == [kind |-> "null"]
Str(s) == [kind |-> "string", chars |-> s]
Num(n) == [kind |-> "number", cls |-> "finite", n |-> n]
NaN == [kind |-> "number", cls |-> "NaN", n |-> 0]
Infinity == [kind |-> "number", cls |-> "Infinity", n |-> 0]
Bool(b) == [kind |-> "boolean", b |-> b]
DateOf(t) == [kind |-> "Date", time |-> t]
Arr(items) == [kind |-> "array", items |-> items]
Obj(fields) == ("kind" :> "object") @@ fields
\* a symbol, Symbol()
Sym == [kind |-> "symbol"]

\* typeof v
TypeOf(v) ==
    CASE v.kind = "undefined" -> "undefined"
      [] v.kind = "string" -> "string"
      [] v.kind = "number" -> "number"
      [] v.kind = "boolean" -> "boolean"
      [] v.kind = "function" -> "function"
      [] v.kind = "symbol" -> "symbol"
      [] OTHER -> "object"

\* ToBoolean(v), as used by !v and by &&
Truthy(v) ==
    CASE v.kind \in {"undefined", "null"} -> FALSE
      [] v.kind = "string" -> Len(v.chars) > 0
      [] v.kind = "number" -> v.cls = "Infinity" \/ (v.cls = "finite" /\ v.n # 0)
      [] v.kind = "boolean" -> v.b
      [] OTHER -> TRUE

\* key in v, for a plain object v
HasOwn(v, key) == v.kind = "object" /\ key \in DOMAIN v

\* v[key]: undefined when the property is missing
Get(v, key) == IF HasOwn(v, key) THEN v[key] ELSE Undefined

IsArray(v) == v.kind = "array"

\* ToString(v), as a template literal applies it to an interpolated value,
\* throws a TypeError: it does for a symbol
ToStringThrows(v) == v.kind = "symbol"

TypeError == [name |-> "TypeError"]
IsString(v) == v.kind = "string"

-----------------------------------------------------------------------------
(* Characters and strings *)

Lower == {"a", "b", "c", "d", "e", "f", "g", "h", "i", "j", "k", "l", "m",
          "n", "o", "p", "q", "r", "s", "t", "u", "v", "w", "x", "y", "z"}
Upper == {"A", "B", "C", "D", "E", "F", "G", "H", "I", "J", "K", "L", "M",
          "N", "O", "P", "Q", "R", "S", "T", "U", "V", "W", "X", "Y", "Z"}
Digit == {"0", "1", "2", "3", "4", "5", "6", "7", "8", "9"}
Letter == Lower \cup Upper
\* the characters \s matches, among those the inputs use
WhiteSpace == {" ", "\t", "\n"}

Rep(c, n) == [i \in 1..n |-> c]

\* every character of s from position i on is in class
AllIn(s, i, class) == \A k \in i..Len(s) : s[k] \in class

\* String.prototype.trim(): blank exactly when every character is white space
TrimmedLength(s) ==
    IF AllIn(s, 1, WhiteSpace) THEN 0
    ELSE LET first == CHOOSE i \in 1..Len(s) :
                          s[i] \notin WhiteSpace /\ \A k \in 1..(i - 1) : s[k] \in WhiteSpace
             last == CHOOSE j \in 1..Len(s) :
                          s[j] \notin WhiteSpace /\ \A k \in (j + 1)..Len(s) : s[k] \in WhiteSpace
         IN  last - first + 1

\* the ten property type tags
T_title == <<"t", "i", "t", "l", "e">>
T_rich_text == <<"r", "i", "c", "h", "_", "t", "e", "x", "t">>
T_number == <<"n", "u", "m", "b", "e", "r">>
T_checkbox == <<"c", "h", "e", "c", "k", "b", "o", "x">>
T_date == <<"d", "a", "t", "e">>
T_url == <<"u", "r", "l">>
T_email == <<"e", "m", "a", "i", "l">>
T_select == <<"s", "e", "l", "e", "c", "t">>
T_multi_select == <<"m", "u", "l", "t", "i", "_", "s", "e", "l", "e", "c", "t">>
T_people == <<"p", "e", "o", "p", "l", "e">>

F_percent == <<"p", "e", "r", "c", "e", "n", "t">>
F_dollar == <<"d", "o", "l", "l", "a", "r">>

\* an array index key: a canonical decimal numeral
IsIndexKey(name) ==
    Len(name) > 0 /\ AllIn(name, 1, Digit) /\ (Len(name) > 1 => name[1] # "0")

DigitValue(c) == CHOOSE d \in 0..9 : <<"0", "1", "2", "3", "4", "5", "6", "7", "8", "9">>[d + 1] = c

\* numeric order of two index keys
IndexLess(a, b) ==
    \/ Len(a) < Len(b)
    \/ /\ Len(a) = Len(b)
       /\ \E i \in 1..Len(a) :
             /\ DigitValue(a[i]) < DigitValue(b[i])
             /\ \A k \in 1..(i - 1) : a[k] = b[k]

\* The own-property order of an object written as a literal with the given
\* entries (distinct keys): index keys first, in ascending numeric order, then
\* the other keys in the order the literal declares them.
OwnPropertyOrder(declared) ==
    LET IsIndex(e) == IsIndexKey(e.name)
        NotIndex(e) == ~IsIndexKey(e.name)
        Before(e1, e2) == IndexLess(e1.name, e2.name)
    IN  SortSeq(SelectSeq(declared, IsIndex), Before) \o SelectSeq(declared, NotIndex)

\* a method inherited from Object.prototype
Function == [kind |-> "function"]

\* The properties object of a schema literal: its own properties in the order
\* the program enumerates them.  The field declared keeps the order of the
\* literal's text; no operation of the program reads it.
PropertiesMap(declared) ==
    [kind |-> "map", entries |-> OwnPropertyOrder(declared), declared |-> declared]


-----------------------------------------------------------------------------
(* Structural validator: validator.ts *)

\* an error message: a template and the values interpolated into it
Msg(tmpl, args) == [tmpl |-> tmpl, args |-> args]

MaxProperties == 20
MinProperties == 1
MaxNameLength == 100
DatabaseIdLength == 36
MaxEmailLength == 254

DEFAULT_VALIDATION_CONFIG ==
    [maxProperties |-> MaxProperties, minProperties |-> MinProperties,
     requireTitle |-> TRUE, allowMultipleTitles |-> FALSE]

ValidTypes == {T_title, T_rich_text, T_number, T_checkbox, T_date,
               T_url, T_email, T_select, T_multi_select, T_people}

\* /^[a-f0-9\-]{36}$/.test(id)
DatabaseIdChars == {"a", "b", "c", "d", "e", "f", "-"} \cup Digit

\* faulty variant: the pattern with the i flag
isValidDatabaseId_IgnoreCase(id) ==
    Len(id) = DatabaseIdLength
    /\ AllIn(id, 1, DatabaseIdChars \cup {"A", "B", "C", "D", "E", "F"})

isValidDatabaseId(id) ==
    Len(id) = DatabaseIdLength /\ AllIn(id, 1, DatabaseIdChars)

isPropertyDefinition(value) ==
    /\ Truthy(value)
    /\ TypeOf(value) = "object"
    /\ Truthy(Get(value, "type"))
    /\ TypeOf(Get(value, "type")) = "string"
    /\ Get(value, "type").chars \in ValidTypes

isValidNumberFormat(format) ==
    format \in {Str(T_number), Str(F_percent), Str(F_dollar)}

\* /^[a-zA-Z]/.test(name)
StartsWithLetter(name) == Len(name) > 0 /\ name[1] \in Letter

\* /^[a-zA-Z][a-zA-Z0-9_\s]*$/.test(name)
NamePattern(name) ==
    StartsWithLetter(name) /\ AllIn(name, 2, Letter \cup Digit \cup {"_"} \cup WhiteSpace)

validatePropertyName(name) ==
    IF Len(name) = 0
    THEN <<Msg("Property name must be a non-empty string", <<>>)>>
    ELSE (IF Len(name) > MaxNameLength
          THEN <<Msg("Property name cannot exceed 100 characters", <<>>)>> ELSE <<>>)
         \o (IF ~StartsWithLetter(name)
             THEN <<Msg("Property name must start with a letter", <<>>)>> ELSE <<>>)
         \o (IF ~NamePattern(name)
             THEN <<Msg("Property name can only contain letters, numbers, underscores, and spaces", <<>>)>>
             ELSE <<>>)

\* new Set(items).size
SetSize(items) == Cardinality({items[i] : i \in DOMAIN items})

\* faulty variant: duplicates are counted among all the elements
validateSelectionOptions_AllElements(options, propertyName) ==
    IF ~IsArray(options)
    THEN <<Msg("Property '{0}': Options must be an array", <<Str(propertyName)>>)>>
    ELSE LET NotString(o) == TypeOf(o) # "string"
             Blank(o) == TypeOf(o) = "string" /\ TrimmedLength(o.chars) = 0
         IN  (IF Len(options.items) = 0
              THEN <<Msg("Property '{0}': Selection options cannot be empty", <<Str(propertyName)>>)>>
              ELSE <<>>)
             \o (IF Len(SelectSeq(options.items, NotString)) > 0
                 THEN <<Msg("Property '{0}': All options must be strings", <<Str(propertyName)>>)>>
                 ELSE <<>>)
             \o (IF Len(SelectSeq(options.items, Blank)) > 0
                 THEN <<Msg("Property '{0}': Options cannot be empty strings", <<Str(propertyName)>>)>>
                 ELSE <<>>)
             \o (IF SetSize(options.items) # Len(options.items)
                 THEN <<Msg("Property '{0}': Options must be unique", <<Str(propertyName)>>)>>
                 ELSE <<>>)

validateSelectionOptions(options, propertyName) ==
    IF ~IsArray(options)
    THEN <<Msg("Property '{0}': Options must be an array", <<Str(propertyName)>>)>>
    ELSE LET NotString(o) == TypeOf(o) # "string"
             Blank(o) == TypeOf(o) = "string" /\ TrimmedLength(o.chars) = 0
             stringOptions == SelectSeq(options.items, IsString)
         IN  (IF Len(options.items) = 0
              THEN <<Msg("Property '{0}': Selection options cannot be empty", <<Str(propertyName)>>)>>
              ELSE <<>>)
             \o (IF Len(SelectSeq(options.items, NotString)) > 0
                 THEN <<Msg("Property '{0}': All options must be strings", <<Str(propertyName)>>)>>
                 ELSE <<>>)
             \o (IF Len(SelectSeq(options.items, Blank)) > 0
                 THEN <<Msg("Property '{0}': Options cannot be empty strings", <<Str(propertyName)>>)>>
                 ELSE <<>>)
             \o (IF SetSize(stringOptions) # Len(stringOptions)
                 THEN <<Msg("Property '{0}': Options must be unique", <<Str(propertyName)>>)>>
                 ELSE <<>>)

validatePropertyStructure(name, definition) ==
    validatePropertyName(name) \o
    (IF ~isPropertyDefinition(definition)
     THEN <<Msg("Property '{0}': Invalid property definition structure", <<Str(name)>>)>>
     ELSE LET type == definition.type.chars IN
          CASE type = T_number ->
                 IF Truthy(Get(definition, "format")) /\ ~isValidNumberFormat(Get(definition, "format"))
                 THEN <<Msg("Property '{0}': Invalid number format '{1}'", <<Str(name), Get(definition, "format")>>)>>
                 ELSE <<>>
            [] type \in {T_select, T_multi_select} ->
                 IF ~HasOwn(definition, "options") \/ ~IsArray(definition.options)
                 THEN <<Msg("Property '{0}': Selection properties must have options array", <<Str(name)>>)>>
                 ELSE validateSelectionOptions(definition.options, name)
            [] OTHER -> <<>>)

\* Object.entries(properties): the own enumerable properties.  Those of the
\* properties map of a schema literal; those of an array, its elements under
\* their indices; a Date has none.
ObjectEntries(properties) ==
    CASE properties.kind = "map" -> properties.entries
      [] properties.kind = "array" ->
           [i \in DOMAIN properties.items |->
               [name |-> <<<<"0", "1", "2", "3", "4", "5", "6", "7", "8", "9">>[i]>>,
                def |-> properties.items[i]]]
      [] OTHER -> <<>>

\* faulty variant: the loop stops at the first property that has errors
RECURSIVE PropertyErrors_StopAtFirst(_)
PropertyErrors_StopAtFirst(entries) ==
    IF entries = <<>> THEN <<>>
    ELSE IF validatePropertyStructure(Head(entries).name, Head(entries).def) # <<>>
    THEN validatePropertyStructure(Head(entries).name, Head(entries).def)
    ELSE PropertyErrors_StopAtFirst(Tail(entries))

\* the loop over propertyEntries: the errors of every entry, in order
RECURSIVE PropertyErrors(_)
PropertyErrors(entries) ==
    IF entries = <<>> THEN <<>>
    ELSE validatePropertyStructure(Head(entries).name, Head(entries).def)
         \o PropertyErrors(Tail(entries))

\* the database ID validation of validateSchemaStructure
DatabaseIdErrors(databaseId) ==
    IF ~Truthy(databaseId) \/ TypeOf(databaseId) # "string"
    THEN <<Msg("Database ID is required and must be a string", <<>>)>>
    ELSE IF ~isValidDatabaseId(databaseId.chars)
         THEN <<Msg("Database ID must be a valid UUID format", <<>>)>>
         ELSE <<>>

\* faulty variant: the upper limit compared with >=
CountErrors_OffByOne(propertyEntries, cfg) ==
    (IF Len(propertyEntries) < cfg.minProperties
     THEN <<Msg("Schema must have at least {0} property", <<Num(cfg.minProperties)>>)>>
     ELSE <<>>)
    \o (IF Len(propertyEntries) >= cfg.maxProperties
        THEN <<Msg("Schema cannot have more than {0} properties", <<Num(cfg.maxProperties)>>)>>
        ELSE <<>>)

\* the property count validation of validateSchemaStructure
CountErrors(propertyEntries, cfg) ==
    (IF Len(propertyEntries) < cfg.minProperties
     THEN <<Msg("Schema must have at least {0} property", <<Num(cfg.minProperties)>>)>>
     ELSE <<>>)
    \o (IF Len(propertyEntries) > cfg.maxProperties
        THEN <<Msg("Schema cannot have more than {0} properties", <<Num(cfg.maxProperties)>>)>>
        ELSE <<>>)

\* the title property validation of validateSchemaStructure
\* faulty variant: the number of titles is looked at only when one is required
TitleErrors_OnlyWhenRequired(propertyEntries, cfg) ==
    LET IsTitle(e) == isPropertyDefinition(e.def) /\ e.def.type.chars = T_title
        titleProperties == SelectSeq(propertyEntries, IsTitle)
    IN  IF ~cfg.requireTitle THEN <<>>
        ELSE (IF Len(titleProperties) = 0
              THEN <<Msg("Schema must have exactly one title property", <<>>)>>
              ELSE <<>>)
             \o (IF ~cfg.allowMultipleTitles /\ Len(titleProperties) > 1
                 THEN <<Msg("Schema cannot have multiple title properties", <<>>)>>
                 ELSE <<>>)

TitleErrors(propertyEntries, cfg) ==
    LET IsTitle(e) == isPropertyDefinition(e.def) /\ e.def.type.chars = T_title
        titleProperties == SelectSeq(propertyEntries, IsTitle)
    IN  (IF cfg.requireTitle /\ Len(titleProperties) = 0
         THEN <<Msg("Schema must have exactly one title property", <<>>)>>
         ELSE <<>>)
        \o (IF ~cfg.allowMultipleTitles /\ Len(titleProperties) > 1
            THEN <<Msg("Schema cannot have multiple title properties", <<>>)>>
            ELSE <<>>)

\* validatePropertyStructure(name, definition) throws: the template literal
\* of the number format error interpolates definition.format
validatePropertyStructureThrows(name, definition) ==
    /\ isPropertyDefinition(definition)
    /\ definition.type.chars = T_number
    /\ Truthy(Get(definition, "format"))
    /\ ~isValidNumberFormat(Get(definition, "format"))
    /\ ToStringThrows(Get(definition, "format"))

\* validateSchemaStructure(schema, cfg) throws: the loop over the property
\* entries is reached and validatePropertyStructure throws on one of them
validateSchemaStructureThrows(schema, cfg) ==
    /\ Truthy(schema) /\ TypeOf(schema) = "object"
    /\ Truthy(Get(schema, "properties")) /\ TypeOf(Get(schema, "properties")) = "object"
    /\ \E i \in DOMAIN ObjectEntries(Get(schema, "properties")) :
           validatePropertyStructureThrows(ObjectEntries(Get(schema, "properties"))[i].name,
                                           ObjectEntries(Get(schema, "properties"))[i].def)

\* the value validateSchemaStructure(schema, cfg) returns, when it returns
validateSchemaStructure(schema, cfg) ==
    IF ~Truthy(schema) \/ TypeOf(schema) # "object"
    THEN [isValid |-> FALSE, errors |-> <<Msg("Schema must be a non-null object", <<>>)>>]
    ELSE
    LET idErrors == DatabaseIdErrors(Get(schema, "databaseId"))
        properties == Get(schema, "properties")
    IN
    IF ~Truthy(properties) \/ TypeOf(properties) # "object"
    THEN [isValid |-> FALSE,
          errors |-> idErrors \o <<Msg("Properties are required and must be an object", <<>>)>>]
    ELSE
    LET propertyEntries == ObjectEntries(properties)
        errors ==
            idErrors
            \o CountErrors(propertyEntries, cfg)
            \o TitleErrors(propertyEntries, cfg)
            \o PropertyErrors(propertyEntries)
    IN  [isValid |-> errors = <<>>, errors |-> errors]


-----------------------------------------------------------------------------
(* Creation-time validation: validation.ts (the valibot schemas).  Each     *)
(* schema is modelled by the list of issues valibot reports for an input;   *)
(* v.parse throws exactly when that list is not empty.  In a v.pipe the     *)
(* v.check actions run only on an input its schema accepted.                *)

\* v.pipe(v.array(v.string()), v.check(length > 0), v.check(unique))
optionsSchema(options, emptyMessage, uniqueMessage) ==
    IF ~IsArray(options) THEN <<"Invalid type: Expected Array">>
    ELSE IF \E i \in DOMAIN options.items : ~IsString(options.items[i])
    THEN <<"Invalid type: Expected string">>
    ELSE (IF ~(Len(options.items) > 0) THEN <<emptyMessage>> ELSE <<>>)
         \o (IF ~(SetSize(options.items) = Len(options.items)) THEN <<uniqueMessage>> ELSE <<>>)

\* v.optional(v.picklist(['number', 'percent', 'dollar']))
formatSchema(format) ==
    IF format = Undefined \/ format \in {Str(T_number), Str(F_percent), Str(F_dollar)}
    THEN <<>>
    ELSE <<"Invalid type: Expected format">>

\* v.variant('type', [...])
propertyDefinitionSchema(input) ==
    IF ~(Truthy(input) /\ TypeOf(input) = "object")
    THEN <<"Invalid type: Expected Object">>
    ELSE LET type == Get(input, "type") IN
         IF ~(IsString(type) /\ type.chars \in ValidTypes)
         THEN <<"Invalid type: Expected type discriminator">>
         ELSE CASE type.chars = T_number -> formatSchema(Get(input, "format"))
                [] type.chars = T_select ->
                     optionsSchema(Get(input, "options"),
                                   "Select options cannot be empty",
                                   "Select options must be unique")
                [] type.chars = T_multi_select ->
                     optionsSchema(Get(input, "options"),
                                   "Multi-select options cannot be empty",
                                   "Multi-select options must be unique")
                [] OTHER -> <<>>

\* v.pipe(v.string(), v.minLength(1), v.regex(/^[a-f0-9\-]{36}$/))
databaseIdSchema(input) ==
    IF ~IsString(input) THEN <<"Invalid type: Expected string">>
    ELSE (IF Len(input.chars) < 1 THEN <<"Database ID cannot be empty">> ELSE <<>>)
         \o (IF ~(Len(input.chars) = DatabaseIdLength /\ AllIn(input.chars, 1, DatabaseIdChars))
             THEN <<"Database ID must be a valid UUID format">> ELSE <<>>)

\* the issues of the entries of v.record(v.string(), propertyDefinitionSchema):
\* the key schema v.string() accepts every key, so only the values can fail
RECURSIVE RecordIssues(_)
RecordIssues(entries) ==
    IF entries = <<>> THEN <<>>
    ELSE propertyDefinitionSchema(Head(entries).def) \o RecordIssues(Tail(entries))

\* the two v.check actions on the number of properties
countChecks(entries) ==
    (IF ~(Len(entries) > 0) THEN <<"Schema must have at least one property">> ELSE <<>>)
    \o (IF ~(Len(entries) <= 20) THEN <<"Schema cannot have more than 20 properties">> ELSE <<>>)

\* faulty variant: at least one title property
titleCheck_AtLeastOne(entries) ==
    LET IsTitle(e) == e.def.type.chars = T_title IN
    IF ~(Len(SelectSeq(entries, IsTitle)) >= 1)
    THEN <<"Schema must have exactly one title property">> ELSE <<>>

\* the v.check action on the title properties
titleCheck(entries) ==
    LET IsTitle(e) == e.def.type.chars = T_title IN
    IF ~(Len(SelectSeq(entries, IsTitle)) = 1)
    THEN <<"Schema must have exactly one title property">> ELSE <<>>

\* the keys v.record leaves out of what it parses
BlockedKeys ==
    {<<"_", "_", "p", "r", "o", "t", "o", "_", "_">>,
     <<"p", "r", "o", "t", "o", "t", "y", "p", "e">>,
     <<"c", "o", "n", "s", "t", "r", "u", "c", "t", "o", "r">>}

\* the entries v.record parses and hands to the checks of the pipe
RecordEntries(input) ==
    LET Kept(e) == e.name \notin BlockedKeys IN
    SelectSeq(ObjectEntries(input), Kept)

\* the properties entry of schemaDefinitionSchema
propertiesSchema(input) ==
    IF ~(Truthy(input) /\ TypeOf(input) = "object")
    THEN <<"Invalid type: Expected Object">>
    ELSE LET entries == RecordEntries(input) IN
         IF RecordIssues(entries) # <<>> THEN RecordIssues(entries)
         ELSE countChecks(entries) \o titleCheck(entries)

schemaDefinitionSchema(input) ==
    IF ~(Truthy(input) /\ TypeOf(input) = "object")
    THEN <<"Invalid type: Expected Object">>
    ELSE databaseIdSchema(Get(input, "databaseId")) \o propertiesSchema(Get(input, "properties"))

\* validateSchemaDefinition(schema) throws (a ValiError)
validateSchemaDefinitionThrows(schema) == schemaDefinitionSchema(schema) # <<>>

-----------------------------------------------------------------------------
(* Typed errors: errors/index.ts *)

P_schema == <<"s", "c", "h", "e", "m", "a">>

NoError == [name |-> "none"]

SchemaValidationError(property, expected, received) ==
    [name |-> "SchemaValidationError", code |-> "SCHEMA_VALIDATION_ERROR",
     context |-> [property |-> property, expected |-> expected, received |-> received]]

PropertyAccessError(property, schema) ==
    [name |-> "PropertyAccessError", code |-> "PROPERTY_ACCESS_ERROR",
     context |-> [property |-> property, schema |-> schema]]

PropertyValidationError(property, value, expectedType) ==
    [name |-> "PropertyValidationError", code |-> "PROPERTY_VALIDATION_ERROR",
     context |-> [property |-> property, value |-> value, expectedType |-> expectedType]]

SelectionValidationError(property, value, validOptions) ==
    [name |-> "SelectionValidationError", code |-> "SELECTION_VALIDATION_ERROR",
     context |-> [property |-> property, value |-> value, validOptions |-> validOptions]]


-----------------------------------------------------------------------------
(* The throwing wrapper: validator.ts *)

\* array.join(separator)
Join(list, separator) == [kind |-> "joined", parts |-> list, separator |-> separator]

\* the test of validateSchema on the result of validateSchemaStructure
validateSchemaFails(validation) == ~validation.isValid

\* The error validateSchema(schema, cfg) throws, or NoError when it returns.
validateSchema(schema, cfg) ==
    IF validateSchemaStructureThrows(schema, cfg) THEN TypeError
    ELSE LET validation == validateSchemaStructure(schema, cfg) IN
         IF validateSchemaFails(validation)
         THEN SchemaValidationError(Str(P_schema), "valid schema structure",
                                    Msg("Validation failed: {0}",
                                        <<Join(validation.errors, ", ")>>))
         ELSE NoError

-----------------------------------------------------------------------------
(* Runtime value validator: validator.ts *)

\* faulty variant: no limit on the length
isValidEmail_NoLimit(email) ==
    \E i \in 2..Len(email) :
        /\ email[i] = "@"
        /\ \A k \in (1..Len(email)) \ {i} : email[k] \notin (WhiteSpace \cup {"@"})
        /\ \E j \in (i + 2)..(Len(email) - 1) : email[j] = "."

\* /^[^\s@]+@[^\s@]+\.[^\s@]+$/.test(email) && email.length <= 254
isValidEmail(email) ==
    /\ \E i \in 2..Len(email) :
         /\ email[i] = "@"
         /\ \A k \in (1..Len(email)) \ {i} : email[k] \notin (WhiteSpace \cup {"@"})
         /\ \E j \in (i + 2)..(Len(email) - 1) : email[j] = "."
    /\ Len(email) <= MaxEmailLength

ToLowerCase(c) ==
    IF c \in Upper
    THEN LET lower == <<"a", "b", "c", "d", "e", "f", "g", "h", "i", "j", "k", "l", "m",
                        "n", "o", "p", "q", "r", "s", "t", "u", "v", "w", "x", "y", "z">>
             upper == <<"A", "B", "C", "D", "E", "F", "G", "H", "I", "J", "K", "L", "M",
                        "N", "O", "P", "Q", "R", "S", "T", "U", "V", "W", "X", "Y", "Z">>
         IN  lower[CHOOSE i \in 1..26 : upper[i] = c]
    ELSE c

\* s without its leading and trailing white space
Trim(s) ==
    IF AllIn(s, 1, WhiteSpace) THEN <<>>
    ELSE LET first == CHOOSE i \in 1..Len(s) :
                          s[i] \notin WhiteSpace /\ \A k \in 1..(i - 1) : s[k] \in WhiteSpace
         IN  SubSeq(s, first, first + TrimmedLength(s) - 1)

\* The protocol of new URL(url), or "" when the constructor throws.  The URL
\* parser without a base: strip surrounding white space; the scheme is a letter
\* followed by letters, digits, "+", "-" or "." up to the first ":", compared
\* in lower case; after "http:" or "https:" any run of "/" and "\" is skipped
\* and a host must follow, up to the next "/", "\", "?" or "#".  The hosts of
\* the inputs are plain domain names: no credentials, port, address literal
\* or percent escape.
SchemeChars == Letter \cup Digit \cup {"+", "-", "."}
HostChars == Letter \cup Digit \cup {"-", ".", "_"}
HostEnd == {"/", "\\", "?", "#"}

URLProtocol(url) ==
    LET u == Trim(url) IN
    IF ~(Len(u) > 0 /\ u[1] \in Letter /\ \E i \in 1..Len(u) : u[i] = ":") THEN ""
    ELSE
    LET colon == CHOOSE i \in 1..Len(u) : u[i] = ":" /\ \A k \in 1..(i - 1) : u[k] # ":"
        scheme == [k \in 1..(colon - 1) |-> ToLowerCase(u[k])]
        rest == SubSeq(u, colon + 1, Len(u))
        Slash(i) == rest[i] \in {"/", "\\"}
        start == IF \A i \in 1..Len(rest) : Slash(i) THEN Len(rest) + 1
                 ELSE CHOOSE i \in 1..Len(rest) : ~Slash(i) /\ \A k \in 1..(i - 1) : Slash(k)
        stop == IF \A i \in start..Len(rest) : rest[i] \notin HostEnd THEN Len(rest) + 1
                ELSE CHOOSE i \in start..Len(rest) :
                         rest[i] \in HostEnd /\ \A k \in start..(i - 1) : rest[k] \notin HostEnd
        host == SubSeq(rest, start, stop - 1)
    IN
    IF \E k \in 1..(colon - 1) : u[k] \notin SchemeChars THEN ""
    ELSE IF scheme = <<"h", "t", "t", "p">> \/ scheme = <<"h", "t", "t", "p", "s">>
    THEN IF Len(host) > 0 /\ AllIn(host, 1, HostChars)
         THEN (IF scheme = <<"h", "t", "t", "p">> THEN "http:" ELSE "https:")
         ELSE ""
    ELSE "other:"

isValidURL(url) == URLProtocol(url) \in {"http:", "https:"}

U_person == <<"p", "e", "r", "s", "o", "n">>
U_bot == <<"b", "o", "t">>

isValidNotionUser(user) ==
    /\ Truthy(user)
    /\ TypeOf(user) = "object"
    /\ TypeOf(Get(user, "id")) = "string"
    /\ Len(Get(user, "id").chars) > 0
    /\ (Get(user, "name") = Null \/ Get(user, "name") = Undefined
            \/ TypeOf(Get(user, "name")) = "string")
    /\ (Get(user, "type") = Str(U_person) \/ Get(user, "type") = Str(U_bot))

\* array.includes(v), for an array of strings
Includes(array, v) == \E i \in DOMAIN array.items : array.items[i] = v

\* faulty variant: undefined is not treated as absent
IsNullOrUndefined_OnlyNull(value) == value = Null

\* value === null || value === undefined
IsNullOrUndefined(value) == value = Null \/ value = Undefined

\* faulty variant: a string outside the options reported as a type mismatch
validateSelectValue_Generic(value, definition, propertyName) ==
    IF TypeOf(value) # "string"
    THEN PropertyValidationError(Str(propertyName), value, "string")
    ELSE IF HasOwn(definition, "options") /\ ~Includes(definition.options, value)
    THEN PropertyValidationError(Str(propertyName), value, "string")
    ELSE NoError

\* case 'select' of validatePropertyValue
validateSelectValue(value, definition, propertyName) ==
    IF TypeOf(value) # "string"
    THEN PropertyValidationError(Str(propertyName), value, "string")
    ELSE IF HasOwn(definition, "options") /\ ~Includes(definition.options, value)
    THEN SelectionValidationError(Str(propertyName), value, definition.options)
    ELSE NoError

\* faulty variant: the last offending element is reported
validateMultiSelectValue_Last(value, definition, propertyName) ==
    IF ~IsArray(value) THEN PropertyValidationError(Str(propertyName), value, "string[]")
    ELSE IF ~(\A i \in DOMAIN value.items : TypeOf(value.items[i]) = "string")
    THEN PropertyValidationError(Str(propertyName), value, "string[]")
    ELSE IF HasOwn(definition, "options")
    THEN LET NotIncluded(v) == ~Includes(definition.options, v)
             invalidValues == SelectSeq(value.items, NotIncluded)
         IN  IF Len(invalidValues) > 0
             THEN SelectionValidationError(Str(propertyName), invalidValues[Len(invalidValues)],
                                           definition.options)
             ELSE NoError
    ELSE NoError

\* case 'multi_select' of validatePropertyValue
validateMultiSelectValue(value, definition, propertyName) ==
    IF ~IsArray(value) THEN PropertyValidationError(Str(propertyName), value, "string[]")
    ELSE IF ~(\A i \in DOMAIN value.items : TypeOf(value.items[i]) = "string")
    THEN PropertyValidationError(Str(propertyName), value, "string[]")
    ELSE IF HasOwn(definition, "options")
    THEN LET NotIncluded(v) == ~Includes(definition.options, v)
             invalidValues == SelectSeq(value.items, NotIncluded)
         IN  IF Len(invalidValues) > 0
             THEN SelectionValidationError(Str(propertyName), invalidValues[1],
                                           definition.options)
             ELSE NoError
    ELSE NoError

\* The error validatePropertyValue(value, definition, propertyName) throws, or
\* NoError when it returns.
validatePropertyValue(value, definition, propertyName) ==
    IF IsNullOrUndefined(value) THEN NoError
    ELSE
    LET type == IF IsString(Get(definition, "type")) THEN Get(definition, "type").chars ELSE <<>>
        Fail(expectedType) == PropertyValidationError(Str(propertyName), value, expectedType)
    IN
    CASE type \in {T_title, T_rich_text} ->
           IF TypeOf(value) # "string" THEN Fail("string") ELSE NoError
      [] type = T_email ->
           IF TypeOf(value) # "string" THEN Fail("string")
           ELSE IF ~isValidEmail(value.chars) THEN Fail("valid email address")
           ELSE NoError
      [] type = T_url ->
           IF TypeOf(value) # "string" THEN Fail("string")
           ELSE IF ~isValidURL(value.chars) THEN Fail("valid URL")
           ELSE NoError
      [] type = T_number ->
           IF TypeOf(value) # "number" \/ value.cls = "NaN" THEN Fail("number") ELSE NoError
      [] type = T_checkbox ->
           IF TypeOf(value) # "boolean" THEN Fail("boolean") ELSE NoError
      [] type = T_date ->
           IF value.kind # "Date" THEN Fail("Date") ELSE NoError
      [] type = T_select -> validateSelectValue(value, definition, propertyName)
      [] type = T_multi_select -> validateMultiSelectValue(value, definition, propertyName)
      [] type = T_people ->
           IF ~IsArray(value) THEN Fail("NotionUser[]")
           ELSE IF ~(\A i \in DOMAIN value.items : isValidNotionUser(value.items[i]))
           THEN Fail("array of valid NotionUser objects")
           ELSE NoError
      [] OTHER -> NoError


-----------------------------------------------------------------------------
(* TypedSchema: typed-schema.ts *)

\* outcomes of a call
NotCalled == [status |-> "none"]
Returned(value) == [status |-> "returned", value |-> value]
Threw(error) == [status |-> "threw", error |-> error]

NoHandle == [kind |-> "none"]

\* no method of a handle has been called
NoObservation == [op |-> "none"]

N_toString == <<"t", "o", "S", "t", "r", "i", "n", "g">>
N_constructor == <<"c", "o", "n", "s", "t", "r", "u", "c", "t", "o", "r">>
\* names every object literal inherits from Object.prototype
ObjectPrototypeKeys == {N_toString, N_constructor}

OwnKeys(properties) == {properties.entries[i].name : i \in DOMAIN properties.entries}

\* properties[name]
Lookup(properties, name) ==
    IF name \in OwnKeys(properties)
    THEN LET i == CHOOSE k \in DOMAIN properties.entries : properties.entries[k].name = name
         IN  properties.entries[i].def
    ELSE IF name \in ObjectPrototypeKeys THEN Function
    ELSE Undefined

\* propertyName in this._definition.properties
hasProperty(h, propertyName) ==
    \/ propertyName \in OwnKeys(h.definition.properties)
    \/ propertyName \in ObjectPrototypeKeys

getProperty(h, propertyName) ==
    IF ~hasProperty(h, propertyName)
    THEN Threw(PropertyAccessError(Str(propertyName), h.definition.databaseId))
    ELSE Returned(Lookup(h.definition.properties, propertyName))

\* the closure createPropertyValidator() returns, applied to (propertyName, value)
PropertyValidator(h, propertyName, value) ==
    LET got == getProperty(h, propertyName) IN
    IF got.status = "threw" THEN got
    ELSE
    LET propDef == got.value
        type == Get(propDef, "type")
    IN
    IF IsNullOrUndefined(value) THEN Returned(TRUE)
    ELSE IF type \in {Str(T_title), Str(T_rich_text), Str(T_url), Str(T_email)}
    THEN Returned(TypeOf(value) = "string")
    ELSE IF type = Str(T_number)
    THEN Returned(TypeOf(value) = "number" /\ value.cls # "NaN")
    ELSE IF type = Str(T_checkbox) THEN Returned(TypeOf(value) = "boolean")
    ELSE IF type = Str(T_date) THEN Returned(value.kind = "Date")
    ELSE IF type = Str(T_select)
    THEN IF HasOwn(propDef, "options") /\ TypeOf(value) = "string"
         THEN Returned(Includes(propDef.options, value))
         ELSE Returned(FALSE)
    ELSE IF type = Str(T_multi_select)
    THEN IF HasOwn(propDef, "options") /\ IsArray(value)
         THEN Returned(\A i \in DOMAIN value.items :
                           TypeOf(value.items[i]) = "string"
                           /\ Includes(propDef.options, value.items[i]))
         ELSE Returned(FALSE)
    ELSE IF type = Str(T_people) THEN Returned(IsArray(value))
    ELSE Returned(FALSE)

\* new TypedSchema(definition), with the clock at the time of the call
TypedSchema(definition, clock) ==
    IF validateSchemaDefinitionThrows(definition)
    THEN Threw(SchemaValidationError(Str(P_schema), "valid schema definition", definition))
    ELSE Returned([kind |-> "TypedSchema", definition |-> definition,
                   createdAt |-> DateOf(clock), lastQueryDuration |-> 0])

\* get propertyNames(): Object.keys(this._definition.properties)
propertyNames(h) ==
    [i \in DOMAIN ObjectEntries(h.definition.properties) |->
        Str(ObjectEntries(h.definition.properties)[i].name)]

\* an element of the lists getTitleProperty and getPropertiesByType build
NamedDefinition(e) == Obj([name |-> Str(e.name), definition |-> e.def])

getTitleProperty(h) ==
    LET IsTitle(e) == Get(e.def, "type") = Str(T_title)
        titleEntries == SelectSeq(ObjectEntries(h.definition.properties), IsTitle)
    IN  IF Len(titleEntries) = 0
        THEN Threw(SchemaValidationError(Str(<<"t", "i", "t", "l", "e", "P", "r", "o", "p", "e", "r", "t", "y">>),
                                         "exactly one title property", Msg("none found", <<>>)))
        ELSE IF Len(titleEntries) > 1
        THEN Threw(SchemaValidationError(Str(<<"t", "i", "t", "l", "e", "P", "r", "o", "p", "e", "r", "t", "y">>),
                                         "exactly one title property",
                                         Msg("{0} found", <<Num(Len(titleEntries))>>)))
        ELSE Returned(NamedDefinition(titleEntries[1]))

getPropertiesByType(h, type) ==
    LET HasType(e) == Get(e.def, "type") = Str(type)
        matching == SelectSeq(ObjectEntries(h.definition.properties), HasType)
    IN  Arr([i \in DOMAIN matching |-> NamedDefinition(matching[i])])

\* faulty variant: the call also restamps the handle
updateQueryDuration_Restamp(h, duration) ==
    [h EXCEPT !.lastQueryDuration = duration, !.createdAt = DateOf(duration)]

\* the handle after _updateQueryDuration(duration)
updateQueryDuration(h, duration) == [h EXCEPT !.lastQueryDuration = duration]

\* faulty variant: the duration is read from a slot all handles share
getPerformanceMetrics_Shared(h, clock) ==
    Obj([schemaProcessingTime |-> Num(clock - h.createdAt.time),
         activeSchemaCount |-> Num(1),
         lastQueryDuration |-> Num(IF observation.op = "_updateQueryDuration"
                                   THEN observation.input.n ELSE h.lastQueryDuration)])

\* getPerformanceMetrics(), with Date.now() = clock
getPerformanceMetrics(h, clock) ==
    Obj([schemaProcessingTime |-> Num(clock - h.createdAt.time),
         activeSchemaCount |-> Num(1),
         lastQueryDuration |-> Num(h.lastQueryDuration)])

DigitChar(d) == <<"0", "1", "2", "3", "4", "5", "6", "7", "8", "9">>[d + 1]

\* Date.prototype.toISOString(), for an instant in the first second of the epoch
toISOString(date) ==
    <<"1", "9", "7", "0", "-", "0", "1", "-", "0", "1", "T",
      "0", "0", ":", "0", "0", ":", "0", "0", ".">>
    \o <<DigitChar((date.time \div 100) % 10), DigitChar((date.time \div 10) % 10),
          DigitChar(date.time % 10), "Z">>

toJSON(h) ==
    Obj([databaseId |-> h.definition.databaseId,
         properties |-> h.definition.properties,
         createdAt |-> Str(toISOString(h.createdAt)),
         propertyCount |-> Num(Len(ObjectEntries(h.definition.properties)))])

-----------------------------------------------------------------------------
(* Operations *)

\* createTypedSchema(candidate): new TypedSchema(candidate)
CreateTypedSchema ==
    /\ created = NotCalled
    /\ IF validateSchemaDefinitionThrows(candidate)
       THEN /\ created' = Threw(SchemaValidationError(Str(P_schema), "valid schema definition",
                                                      candidate))
            /\ handle' = NoHandle
       ELSE /\ handle' = [kind |-> "TypedSchema", definition |-> candidate,
                          createdAt |-> DateOf(now), lastQueryDuration |-> 0]
            /\ created' = Returned(TRUE)
    /\ UNCHANGED <<candidate, result, config, arg, predicate, assertion, now,
                   wrapped, peer, observation,
                   checked, monitor, history, measured>>

\* validateSchemaStructure(candidate, cfg)
ValidateSchemaStructure(cfg) ==
    /\ result = NotCalled
    /\ result' = IF validateSchemaStructureThrows(candidate, cfg) THEN Threw(TypeError)
                 ELSE Returned(validateSchemaStructure(candidate, cfg))
    /\ config' = cfg
    /\ UNCHANGED <<candidate, created, handle, arg, predicate, assertion, now,
                   wrapped, peer, observation,
                   checked, monitor, history, measured>>

\* validateSchema(candidate, cfg); the outcome is kept with the configuration
ValidateSchema(cfg) ==
    /\ wrapped = NotCalled
    /\ LET error == validateSchema(candidate, cfg) IN
       wrapped' = [status |-> IF error = NoError THEN "returned" ELSE "threw",
                   error |-> error, config |-> cfg]
    /\ UNCHANGED <<candidate, created, handle, result, config, arg, predicate, assertion, now,
                   peer, observation,
                   checked, monitor, history, measured>>

\* handle.createPropertyValidator()(arg.name, arg.value)
CallPropertyValidator ==
    /\ handle # NoHandle
    /\ predicate = NotCalled
    /\ predicate' = PropertyValidator(handle, arg.name, arg.value)
    /\ UNCHANGED <<candidate, created, handle, result, config, arg, assertion, now,
                   wrapped, peer, observation,
                   checked, monitor, history, measured>>

\* validatePropertyValue(arg.value, handle.getProperty(arg.name), arg.name)
CallValidatePropertyValue ==
    /\ handle # NoHandle
    /\ assertion = NotCalled
    /\ LET got == getProperty(handle, arg.name) IN
       IF got.status = "threw" THEN assertion' = got
       ELSE LET error == validatePropertyValue(arg.value, got.value, arg.name) IN
            assertion' = IF error = NoError THEN Returned(Undefined) ELSE Threw(error)
    /\ UNCHANGED <<candidate, created, handle, result, config, arg, predicate, now,
                   wrapped, peer, observation,
                   checked, monitor, history, measured>>

\* the two handles of a program
Handles == {1, 2}
HandleOf(who) == IF who = 1 THEN handle ELSE peer

\* what a call of a handle method leaves alone, next to the two handles
callFrame == <<candidate, created, result, config, arg, predicate, assertion, now, wrapped,
               checked, monitor, history, measured>>

\* a method of handle who is called with input and ends with outcome
Observe(who, op, input, outcome) ==
    observation' = [who |-> who, op |-> op, input |-> input, outcome |-> outcome]

\* createTypedSchema(literal), for the second handle
CreatePeer(literal) ==
    /\ peer = NoHandle
    /\ LET made == TypedSchema(literal, now) IN
       peer' = IF made.status = "threw" THEN NoHandle ELSE made.value
    /\ UNCHANGED <<handle, observation>>
    /\ UNCHANGED callFrame

\* the last instant of the clock
MaxClock == 1

\* time passes
Tick ==
    /\ now < MaxClock
    /\ now' = now + 1
    /\ UNCHANGED <<candidate, created, handle, result, config, arg, predicate, assertion,
                   wrapped, peer, observation,
                   checked, monitor, history, measured>>

HasProperty(who, name) ==
    /\ HandleOf(who) # NoHandle
    /\ Observe(who, "hasProperty", Str(name), Returned(Bool(hasProperty(HandleOf(who), name))))
    /\ UNCHANGED <<handle, peer>>
    /\ UNCHANGED callFrame

GetProperty(who, name) ==
    /\ HandleOf(who) # NoHandle
    /\ Observe(who, "getProperty", Str(name), getProperty(HandleOf(who), name))
    /\ UNCHANGED <<handle, peer>>
    /\ UNCHANGED callFrame

GetPropertyNames(who) ==
    /\ HandleOf(who) # NoHandle
    /\ Observe(who, "propertyNames", Undefined, Returned(Arr(propertyNames(HandleOf(who)))))
    /\ UNCHANGED <<handle, peer>>
    /\ UNCHANGED callFrame

GetTitleProperty(who) ==
    /\ HandleOf(who) # NoHandle
    /\ Observe(who, "getTitleProperty", Undefined, getTitleProperty(HandleOf(who)))
    /\ UNCHANGED <<handle, peer>>
    /\ UNCHANGED callFrame

GetPropertiesByType(who, type) ==
    /\ HandleOf(who) # NoHandle
    /\ Observe(who, "getPropertiesByType", Str(type),
               Returned(getPropertiesByType(HandleOf(who), type)))
    /\ UNCHANGED <<handle, peer>>
    /\ UNCHANGED callFrame

\* createPropertyValidator()(name, value)
CallPredicate(who, name, value) ==
    /\ HandleOf(who) # NoHandle
    /\ LET outcome == PropertyValidator(HandleOf(who), name, value) IN
       Observe(who, "createPropertyValidator", Arr(<<Str(name), value>>),
               IF outcome.status = "threw" THEN outcome ELSE Returned(Bool(outcome.value)))
    /\ UNCHANGED <<handle, peer>>
    /\ UNCHANGED callFrame

GetPerformanceMetrics(who) ==
    /\ HandleOf(who) # NoHandle
    /\ Observe(who, "getPerformanceMetrics", Undefined,
               Returned(getPerformanceMetrics(HandleOf(who), now)))
    /\ UNCHANGED <<handle, peer>>
    /\ UNCHANGED callFrame

ToJSON(who) ==
    /\ HandleOf(who) # NoHandle
    /\ Observe(who, "toJSON", Undefined, Returned(toJSON(HandleOf(who))))
    /\ UNCHANGED <<handle, peer>>
    /\ UNCHANGED callFrame

\* _updateQueryDuration(duration)
UpdateQueryDuration(who, duration) ==
    /\ HandleOf(who) # NoHandle
    /\ IF who = 1
       THEN handle' = updateQueryDuration(handle, duration) /\ UNCHANGED peer
       ELSE peer' = updateQueryDuration(peer, duration) /\ UNCHANGED handle
    /\ Observe(who, "_updateQueryDuration", Num(duration), Returned(Undefined))
    /\ UNCHANGED callFrame


-----------------------------------------------------------------------------
(* The rules of the structural validator, called on their own *)

\* what a call of a rule leaves alone
ruleFrame == <<candidate, created, handle, result, config, arg, predicate, assertion, now,
               wrapped, peer, observation, monitor, history, measured>>

\* validatePropertyName(name)
CallValidatePropertyName(name) ==
    /\ checked' = [rule |-> "validatePropertyName", name |-> name, input |-> Str(name),
                   outcome |-> Returned(validatePropertyName(name))]
    /\ UNCHANGED ruleFrame

\* validateSelectionOptions(options, name)
CallValidateSelectionOptions(options, name) ==
    /\ checked' = [rule |-> "validateSelectionOptions", name |-> name, input |-> options,
                   outcome |-> Returned(validateSelectionOptions(options, name))]
    /\ UNCHANGED ruleFrame

\* validatePropertyStructure(name, definition)
CallValidatePropertyStructure(name, definition) ==
    /\ checked' = [rule |-> "validatePropertyStructure", name |-> name, input |-> definition,
                   outcome |-> IF validatePropertyStructureThrows(name, definition)
                               THEN Threw(TypeError)
                               ELSE Returned(validatePropertyStructure(name, definition))]
    /\ UNCHANGED ruleFrame

-----------------------------------------------------------------------------
(* The performance monitor *)

\* the operations measurePerformance knows by name
O_schema_creation == "schema_creation"
O_query_execution == "query_execution"
O_property_validation == "property_validation"
O_type_inference == "type_inference"

\* new PerformanceMonitor()
NewMonitor ==
    [schemaCount |-> 0, totalProcessingTime |-> 0, lastQueryDuration |-> 0,
     operationTimings |-> <<>>]

\* how many measurements recordOperation keeps for an operation
HistoryLimit == 100

\* operationTimings.get(operation), the empty list when the map has no such key
TimingsOf(timings, operation) ==
    IF operation \in DOMAIN timings THEN timings[operation] ELSE <<>>

\* faulty variant: the newest measurement is dropped, not the oldest
recordOperation_DropNewest(m, operation, duration) ==
    LET pushed == Append(TimingsOf(m.operationTimings, operation), duration)
        kept == IF Len(pushed) > HistoryLimit THEN SubSeq(pushed, 1, Len(pushed) - 1)
                ELSE pushed
    IN  [m EXCEPT !.operationTimings = (operation :> kept) @@ @]

recordOperation(m, operation, duration) ==
    LET pushed == Append(TimingsOf(m.operationTimings, operation), duration)
        kept == IF Len(pushed) > HistoryLimit THEN Tail(pushed) ELSE pushed
    IN  [m EXCEPT !.operationTimings = (operation :> kept) @@ @]

\* faulty variant: the creation is timed but not counted
recordSchemaCreation_Uncounted(m, duration) ==
    recordOperation([m EXCEPT !.totalProcessingTime = @ + duration],
                    O_schema_creation, duration)

recordSchemaCreation(m, duration) ==
    recordOperation([m EXCEPT !.schemaCount = @ + 1, !.totalProcessingTime = @ + duration],
                    O_schema_creation, duration)

recordQueryExecution(m, duration) ==
    recordOperation([m EXCEPT !.lastQueryDuration = duration], O_query_execution, duration)

recordPropertyValidation(m, duration) == recordOperation(m, O_property_validation, duration)

recordTypeInference(m, duration) == recordOperation(m, O_type_inference, duration)

RECURSIVE GCD(_, _)
GCD(a, b) == IF b = 0 THEN a ELSE GCD(b, a % b)

\* the number a / b, b > 0, in lowest terms
Quotient(a, b) == [num |-> a \div GCD(a, b), den |-> b \div GCD(a, b)]
Zero == Quotient(0, 1)

getAverageProcessingTime(m) ==
    IF m.schemaCount > 0 THEN Quotient(m.totalProcessingTime, m.schemaCount) ELSE Zero

getMetrics(m) ==
    [schemaProcessingTime |-> getAverageProcessingTime(m),
     activeSchemaCount |-> m.schemaCount,
     lastQueryDuration |-> m.lastQueryDuration]

reset(m) == NewMonitor

\* the name a call of measurePerformance records under
RecordedName(operation, outcome) ==
    IF outcome.status = "threw" THEN operation \o "_error" ELSE operation

\* the monitor after measurePerformance(operation, fn), where fn ends with
\* outcome after duration milliseconds
measurePerformance(m, operation, outcome, duration) ==
    IF outcome.status = "threw"
    THEN recordOperation(m, operation \o "_error", duration)
    ELSE CASE operation = O_schema_creation -> recordSchemaCreation(m, duration)
           [] operation = O_query_execution -> recordQueryExecution(m, duration)
           [] operation = O_property_validation -> recordPropertyValidation(m, duration)
           [] operation = O_type_inference -> recordTypeInference(m, duration)
           [] OTHER -> recordOperation(m, operation, duration)

\* nothing recorded since the last reset
NoHistory == [timings |-> <<>>, creations |-> 0]

\* what a call of the metrics API leaves alone, next to the monitor
monitorFrame == <<candidate, created, handle, result, config, arg, predicate, assertion, now,
                  wrapped, peer, observation, checked>>

\* measurePerformance(operation, fn); the call ends as fn does
MeasurePerformance(operation, outcome, duration) ==
    /\ monitor' = measurePerformance(monitor, operation, outcome, duration)
    /\ measured' = [op |-> "measurePerformance", operation |-> operation, outcome |-> outcome]
    /\ LET name == RecordedName(operation, outcome) IN
       history' = [timings |-> (name :> Append(TimingsOf(history.timings, name), duration))
                                   @@ history.timings,
                   creations |-> IF outcome.status = "returned" /\ operation = O_schema_creation
                                 THEN history.creations + 1 ELSE history.creations]
    /\ UNCHANGED monitorFrame

\* resetPerformanceMetrics()
ResetPerformanceMetrics ==
    /\ monitor' = reset(monitor)
    /\ measured' = [op |-> "resetPerformanceMetrics"]
    /\ history' = NoHistory
    /\ UNCHANGED monitorFrame

\* getPerformanceMetrics() of the module
GetMetrics ==
    /\ measured' = [op |-> "getPerformanceMetrics", value |-> getMetrics(monitor)]
    /\ UNCHANGED <<monitor, history>>
    /\ UNCHANGED monitorFrame

\* the metrics API was not called
NotMeasured == [op |-> "none"]

\* no rule was called and the monitor is new
Untouched ==
    /\ checked = NotCalled
    /\ monitor = NewMonitor
    /\ history = NoHistory
    /\ measured = NotMeasured

-----------------------------------------------------------------------------
(* Inputs *)

\* how many title properties a literal declares, at most
MaxTitles == 2
\* how far past maxProperties the property count of a literal goes
MaxExcess == 1
\* the longest list value
MaxListLen == 2

UUID == <<"1", "2", "3", "4", "5", "6", "7", "8", "-", "1", "2", "3", "4", "-", "5", "6", "7", "8", "-", "9", "a", "b", "c", "-", "1", "2", "3", "4", "5", "6", "7", "8", "9", "a", "b", "c">>

DatabaseIds ==
    {Str(UUID), Str(Rep("-", DatabaseIdLength)), Str(Rep("f", DatabaseIdLength - 1)),
     Str(Rep("0", DatabaseIdLength + 1)), Str([UUID EXCEPT ![10] = "A"]),
     Str([UUID EXCEPT ![36] = "g"]), Str(<<>>), Num(36), Null}

N_Name == <<"N", "a", "m", "e">>
N_Probe == <<"P", "r", "o", "b", "e">>

\* property names: well-formed and not
ProbeNames ==
    {<<"A", "g", "e">>, <<"V", "_", "N", " ", "2">>, <<"a", "\t", "b">>, <<>>, <<"1", "B", "a", "d">>,
     <<"a", "-", "b">>, <<"7">>, <<" ", "x">>, Rep("a", MaxNameLength), Rep("a", MaxNameLength + 1)}

OptionLists ==
    {Arr(<<>>), Arr(<<Str(<<"A">>), Str(<<"B">>)>>), Arr(<<Str(<<"A">>), Str(<<"A">>)>>),
     Arr(<<Str(<<"A">>), Str(<<" ">>)>>), Arr(<<Str(<<>>)>>), Arr(<<Str(<<"A">>), Num(1)>>),
     Arr(<<Num(1), Num(1)>>)}

\* property definitions: well-formed and not
ProbeDefinitions ==
    {Obj([type |-> Str(t)]) : t \in ValidTypes \ {T_title}}
    \cup {Obj([type |-> Str(T_number), format |-> f]) :
              f \in {Str(F_percent), Str(<<"e", "u", "r", "o">>), Str(<<>>), Null, Undefined}}
    \cup {Obj([type |-> Str(t), options |-> o]) :
              t \in {T_select, T_multi_select}, o \in OptionLists \cup {Str(<<"A">>)}}
    \cup {Null, Str(T_title), Obj([type |-> Str(<<"f", "i", "l", "e">>)]), Obj([type |-> Num(1)]),
          Obj([format |-> Str(F_percent)])}

Entry(name, def) == [name |-> name, def |-> def]

\* t title properties, T, Tx, Txx, ...
TitleEntries(t) == [i \in 1..t |-> Entry(<<"T">> \o Rep("x", i - 1), Obj([type |-> Str(T_title)]))]

\* n further properties, P, Px, Pxx, ...
FillerEntries(n) == [i \in 1..n |-> Entry(<<"P">> \o Rep("x", i - 1), Obj([type |-> Str(T_number)]))]

ProbeEntries ==
    {<<>>}
    \cup {<<Entry(name, Obj([type |-> Str(T_rich_text)]))>> : name \in ProbeNames}
    \cup {<<Entry(N_Probe, def)>> : def \in ProbeDefinitions}

FillerCounts == {0, 1} \cup ((MaxProperties - 2)..(MaxProperties + MaxExcess))

PropertyLists ==
    {TitleEntries(t) \o probe \o FillerEntries(n) :
         t \in 0..MaxTitles, probe \in ProbeEntries, n \in FillerCounts}

\* an object literal with the fields that are given
Literal(databaseId, properties) ==
    [kind |-> "object", databaseId |-> databaseId, properties |-> properties]

SchemaCandidates ==
    {Null, Undefined, Str(UUID), Num(1)}
    \cup {Literal(id, PropertiesMap(p)) : id \in DatabaseIds, p \in PropertyLists}
    \cup {Literal(id, p) : id \in DatabaseIds, p \in {Null, Str(<<"x">>)}}
    \cup {[kind |-> "object", databaseId |-> id] : id \in DatabaseIds}
    \cup {[kind |-> "object", properties |-> PropertiesMap(p)] :
              p \in {TitleEntries(t) : t \in 0..MaxTitles}}

Configs ==
    {DEFAULT_VALIDATION_CONFIG,
     [maxProperties |-> 2, minProperties |-> 2, requireTitle |-> FALSE, allowMultipleTitles |-> TRUE],
     [maxProperties |-> MaxProperties + 1, minProperties |-> 0, requireTitle |-> TRUE,
      allowMultipleTitles |-> TRUE],
     [maxProperties |-> MaxProperties, minProperties |-> MinProperties, requireTitle |-> FALSE,
      allowMultipleTitles |-> FALSE]}

-----------------------------------------------------------------------------
(* Specifications *)

\* schema literals through construction and the structural validator
InitSchema ==
    /\ candidate \in SchemaCandidates
    /\ created = NotCalled
    /\ handle = NoHandle
    /\ result = NotCalled
    /\ config = DEFAULT_VALIDATION_CONFIG
    /\ arg = [name |-> N_Name, value |-> Undefined]
    /\ predicate = NotCalled
    /\ assertion = NotCalled
    /\ now = 0
    /\ wrapped = NotCalled
    /\ peer = NoHandle
    /\ observation = NoObservation
    /\ Untouched

NextSchema ==
    \/ CreateTypedSchema
    \/ \E cfg \in Configs : ValidateSchemaStructure(cfg)

SpecSchema == InitSchema /\ [][NextSchema]_vars

-----------------------------------------------------------------------------
(* Inputs of any shape, through the structural validator, the throwing      *)
(* wrapper and construction                                                 *)

\* how many properties a literal of this part declares, at most
MaxEntries == 3

\* properties to combine: well-formed ones and ones that break a rule
EntryPool ==
    <<Entry(<<"T">>, Obj([type |-> Str(T_title)])),
      Entry(<<"U">>, Obj([type |-> Str(T_title)])),
      Entry(<<"N">>, Obj([type |-> Str(T_number), format |-> Str(F_percent)])),
      Entry(<<"1", "x">>, Obj([type |-> Str(T_rich_text)])),
      Entry(<<"D">>, Null),
      Entry(<<"O">>, Obj([type |-> Str(T_select),
                           options |-> Arr(<<Str(<<"A">>), Str(<<"A">>), Str(<<" ">>)>>)])),
      Entry(<<"F">>, Obj([type |-> Str(T_number), format |-> Str(<<"e", "u", "r", "o">>)])),
      Entry(<<"S">>, Obj([type |-> Str(T_number), format |-> Sym]))>>

\* the entries of the pool at the indices in S, in the order of the pool
Pick(S) ==
    [k \in 1..Cardinality(S) |->
        EntryPool[CHOOSE i \in S : Cardinality({j \in S : j < i}) = k - 1]]

StructureLists ==
    {Pick(S) : S \in {X \in SUBSET DOMAIN EntryPool : Cardinality(X) <= MaxEntries}}

StructureIds == {Str(UUID), Str(<<"x">>), Null}

\* values that are no property map
NoMaps == {Undefined, Null, Str(<<"x">>), Num(0), Bool(TRUE), Sym, DateOf(0), Arr(<<>>),
           Arr(<<Obj([type |-> Str(T_title)])>>), Arr(<<Sym, Null>>)}

StructureCandidates ==
    (NoMaps \ {Arr(<<Obj([type |-> Str(T_title)])>>)})
    \cup {Arr(<<Str(UUID)>>), Bool(FALSE), NaN, Str(<<>>)}
    \cup {Literal(id, PropertiesMap(p)) : id \in StructureIds, p \in StructureLists}
    \cup {Literal(id, p) : id \in StructureIds \cup {Sym, Undefined}, p \in NoMaps}
    \cup {[kind |-> "object", databaseId |-> id] : id \in StructureIds}
    \cup {[kind |-> "object", properties |-> p] : p \in NoMaps}
    \cup {[kind |-> "object"]}

StructureConfigs ==
    Configs \cup {[maxProperties |-> 2, minProperties |-> 1, requireTitle |-> TRUE,
                   allowMultipleTitles |-> FALSE]}

InitStructure ==
    /\ candidate \in StructureCandidates
    /\ created = NotCalled
    /\ handle = NoHandle
    /\ result = NotCalled
    /\ config = DEFAULT_VALIDATION_CONFIG
    /\ arg = [name |-> N_Name, value |-> Undefined]
    /\ predicate = NotCalled
    /\ assertion = NotCalled
    /\ now = 0
    /\ wrapped = NotCalled
    /\ peer = NoHandle
    /\ observation = NoObservation
    /\ Untouched

NextStructure ==
    \/ CreateTypedSchema
    \/ \E cfg \in StructureConfigs : ValidateSchemaStructure(cfg)
    \/ \E cfg \in StructureConfigs : ValidateSchema(cfg)

SpecStructure == InitStructure /\ [][NextStructure]_vars


-----------------------------------------------------------------------------
(* Inputs of the value validators *)

O_A == Str(<<"A">>)
O_B == Str(<<"B">>)
O_C == Str(<<"C">>)
O_Bug == Str(<<"B", "u", "g">>)
O_Feature == Str(<<"F", "e", "a", "t", "u", "r", "e">>)
O_Oops == Str(<<"O", "o", "p", "s">>)
O_Zap == Str(<<"Z", "a", "p">>)

N_Status == <<"S", "t", "a", "t", "u", "s">>
N_Tags == <<"T", "a", "g", "s">>
N_Team == <<"T", "e", "a", "m">>
N_Missing == <<"M", "i", "s", "s", "i", "n", "g">>

\* a schema with one property of every variant
ValueSchema(selectOptions, multiOptions) ==
    Literal(Str(UUID), PropertiesMap(
     <<Entry(<<"N", "a", "m", "e">>, Obj([type |-> Str(T_title)])),
       Entry(<<"B", "i", "o">>, Obj([type |-> Str(T_rich_text)])),
       Entry(<<"A", "g", "e">>, Obj([type |-> Str(T_number)])),
       Entry(<<"A", "c", "t", "i", "v", "e">>, Obj([type |-> Str(T_checkbox)])),
       Entry(<<"D", "u", "e">>, Obj([type |-> Str(T_date)])),
       Entry(<<"S", "i", "t", "e">>, Obj([type |-> Str(T_url)])),
       Entry(<<"M", "a", "i", "l">>, Obj([type |-> Str(T_email)])),
       Entry(N_Status, Obj([type |-> Str(T_select), options |-> Arr(selectOptions)])),
       Entry(N_Tags, Obj([type |-> Str(T_multi_select), options |-> Arr(multiOptions)])),
       Entry(N_Team, Obj([type |-> Str(T_people)]))>>))

ValueSchemas ==
    {ValueSchema(<<O_A, O_B>>, <<O_Bug, O_Feature>>),
     ValueSchema(<<O_C, O_B, O_A>>, <<O_Zap>>)}

User(id, name, type) == Obj([id |-> id, name |-> name, type |-> type])

V_user == User(Str(<<"u", "1">>), Str(<<"A", "l">>), Str(U_person))
V_bot == Obj([id |-> Str(<<"b", "1">>), type |-> Str(U_bot)])

ListElements ==
    {O_Bug, O_Feature, O_Oops, O_Zap, Num(1), V_user, V_bot,
     User(Str(<<>>), Null, Str(U_person)),
     User(Str(<<"u", "2">>), Num(7), Str(U_person)),
     User(Str(<<"u", "3">>), Null, Str(<<"r", "o", "b", "o", "t">>))}

RECURSIVE ListsUpTo(_)
ListsUpTo(n) ==
    IF n = 0 THEN {<<>>}
    ELSE ListsUpTo(n - 1)
         \cup {Append(l, e) : l \in {x \in ListsUpTo(n - 1) : Len(x) = n - 1}, e \in ListElements}

ScalarValues ==
    {Undefined, Null, O_A, O_B, O_C, O_Oops, Str(<<>>), Str(<<" ">>),
     Str(<<"u", "@", "e", ".", "c", "o">>), Str(<<"n", "o", "-", "e", "m", "a", "i", "l">>), Str(<<"a", "@", "b">>), Str(<<"a", " ", "b", "@", "c", ".", "d">>),
     Str(<<"a", "@", "@", "c", ".", "d">>), Str(<<"@", "c", ".", "d">>), Str(<<"a", "@", ".", "d">>), Str(<<"a", "@", "c", ".">>),
     Str(Rep("a", MaxEmailLength - 5) \o <<"@", "b", ".", "c", "o">>),
     Str(Rep("a", MaxEmailLength - 4) \o <<"@", "b", ".", "c", "o">>),
     Str(<<"h", "t", "t", "p", "s", ":", "/", "/", "x", ".", "c", "o", "m">>), Str(<<"h", "t", "t", "p", ":", "/", "/", "x", ".", "c", "o", "m", "/", "p", "?", "q", "#", "f">>), Str(<<"f", "t", "p", ":", "/", "/", "x", ".", "c", "o", "m">>),
     Str(<<"n", "o", "t", "-", "a", "-", "u", "r", "l">>), Str(<<"H", "T", "T", "P", "S", ":", "/", "/", "x", ".", "c", "o", "m">>), Str(<<"h", "t", "t", "p", ":", "x", ".", "c", "o", "m">>),
     Str(<<"h", "t", "t", "p", "s", ":", "/", "/">>), Str(<<"h", "t", "t", "p", ":", "/", "/", "a", " ", "b">>), Str(<<"m", "a", "i", "l", "t", "o", ":", "u", "@", "e", ".", "c", "o">>),
     Str(<<"/", "/", "x", ".", "c", "o", "m">>), Str(<<" ", "h", "t", "t", "p", "s", ":", "/", "/", "x", ".", "c", "o", "m", " ">>),
     Num(30), Num(0), NaN, Infinity, Bool(TRUE), Bool(FALSE), DateOf(0), V_user}

Values == ScalarValues \cup {Arr(l) : l \in ListsUpTo(MaxListLen)}

ArgNames ==
    {<<"N", "a", "m", "e">>, <<"B", "i", "o">>, <<"A", "g", "e">>, <<"A", "c", "t", "i", "v", "e">>, <<"D", "u", "e">>, <<"S", "i", "t", "e">>, <<"M", "a", "i", "l">>,
     N_Status, N_Tags, N_Team, N_Missing, N_toString}

\* property values through the bound predicate and validatePropertyValue
InitValue ==
    /\ candidate \in ValueSchemas
    /\ created = NotCalled
    /\ handle = NoHandle
    /\ result = NotCalled
    /\ config = DEFAULT_VALIDATION_CONFIG
    /\ arg \in [name : ArgNames, value : Values]
    /\ predicate = NotCalled
    /\ assertion = NotCalled
    /\ now = 0
    /\ wrapped = NotCalled
    /\ peer = NoHandle
    /\ observation = NoObservation
    /\ Untouched

NextValue ==
    \/ CreateTypedSchema
    \/ CallPropertyValidator
    \/ CallValidatePropertyValue

SpecValue == InitValue /\ [][NextValue]_vars

-----------------------------------------------------------------------------
(* Inputs of the handle methods *)

\* the largest query duration a caller reports
MaxDuration == 2

N_Age == <<"A", "g", "e">>
N_Active == <<"A", "c", "t", "i", "v", "e">>
N_7 == <<"7">>
N_10 == <<"1", "0">>

ID_Hyphens == Str(Rep("-", DatabaseIdLength))

S_EndToEnd ==
    Literal(Str(UUID), PropertiesMap(
     <<Entry(N_Name, Obj([type |-> Str(T_title)])),
       Entry(N_Age, Obj([type |-> Str(T_number)])),
       Entry(N_Active, Obj([type |-> Str(T_checkbox)]))>>))

\* property names that are array indices, declared in descending order
S_IndexKeys ==
    Literal(ID_Hyphens, PropertiesMap(
     <<Entry(N_Name, Obj([type |-> Str(T_title)])),
       Entry(N_10, Obj([type |-> Str(T_number)])),
       Entry(N_7, Obj([type |-> Str(T_number), format |-> Str(F_percent)]))>>))

\* a property that has the name of a method of Object.prototype
S_Inherited ==
    Literal(Str(UUID), PropertiesMap(
     <<Entry(N_toString, Obj([type |-> Str(T_rich_text)])),
       Entry(N_Name, Obj([type |-> Str(T_title)]))>>))

S_Task ==
    Literal(Str(UUID), PropertiesMap(
     <<Entry(N_Name, Obj([type |-> Str(T_title)])),
       Entry(N_Status, Obj([type |-> Str(T_select), options |-> Arr(<<O_A, O_B>>)])),
       Entry(N_Tags, Obj([type |-> Str(T_multi_select), options |-> Arr(<<O_Bug>>)])),
       Entry(N_Age, Obj([type |-> Str(T_number)]))>>))

S_NoTitle == Literal(Str(UUID), PropertiesMap(<<Entry(N_Age, Obj([type |-> Str(T_number)]))>>))

\* a second title under a key v.record leaves out
S_Constructor ==
    Literal(Str(UUID), PropertiesMap(
     <<Entry(N_Name, Obj([type |-> Str(T_title)])),
       Entry(N_constructor, Obj([type |-> Str(T_title)]))>>))

HandleSchemas == {S_EndToEnd, S_IndexKeys, S_Inherited, S_Task, S_NoTitle, S_Constructor}
PeerSchemas == {S_EndToEnd, S_NoTitle}

HandleNames == {N_Name, N_7, N_Missing, N_toString, N_constructor}
QueryTypes == {T_title, T_number, T_select, T_people}
PredicateNames == {N_Age, N_Status, N_Missing}
PredicateValues == {Num(30), O_A}
Durations == {0, MaxDuration}

\* two handles and the methods called on them
InitHandle ==
    /\ candidate \in HandleSchemas
    /\ created = NotCalled
    /\ handle = NoHandle
    /\ result = NotCalled
    /\ config = DEFAULT_VALIDATION_CONFIG
    /\ arg = [name |-> N_Name, value |-> Undefined]
    /\ predicate = NotCalled
    /\ assertion = NotCalled
    /\ now = 0
    /\ wrapped = NotCalled
    /\ peer = NoHandle
    /\ observation = NoObservation
    /\ Untouched

NextHandle ==
    \/ CreateTypedSchema
    \/ \E literal \in PeerSchemas : CreatePeer(literal)
    \/ Tick
    \/ \E who \in Handles, name \in HandleNames : HasProperty(who, name)
    \/ \E who \in Handles, name \in HandleNames : GetProperty(who, name)
    \/ \E who \in Handles : GetPropertyNames(who)
    \/ \E who \in Handles : GetTitleProperty(who)
    \/ \E who \in Handles, type \in QueryTypes : GetPropertiesByType(who, type)
    \/ \E who \in Handles, name \in PredicateNames, value \in PredicateValues :
           CallPredicate(who, name, value)
    \/ \E who \in Handles : GetPerformanceMetrics(who)
    \/ \E who \in Handles : ToJSON(who)
    \/ \E who \in Handles, duration \in Durations : UpdateQueryDuration(who, duration)

SpecHandle == InitHandle /\ [][NextHandle]_vars

-----------------------------------------------------------------------------
(* Inputs of the rules called on their own *)

\* what is passed as options: lists, and values that are no list
OptionInputs ==
    OptionLists
    \cup {Str(<<"A">>), Null, Obj([length |-> Num(0)]),
          Arr(<<Str(<<"A">>), Str(<<"A">>), Str(<<" ">>), Num(1)>>),
          Arr(<<Str(<<" ">>), Str(<<"\t">>)>>)}

\* what is passed as a definition
DefinitionInputs ==
    ProbeDefinitions \cup {Obj([type |-> Str(T_title)]), Obj([type |-> Str(T_number), format |-> Sym])}

Idle ==
    /\ candidate = Undefined
    /\ created = NotCalled
    /\ handle = NoHandle
    /\ result = NotCalled
    /\ config = DEFAULT_VALIDATION_CONFIG
    /\ arg = [name |-> N_Name, value |-> Undefined]
    /\ predicate = NotCalled
    /\ assertion = NotCalled
    /\ now = 0
    /\ wrapped = NotCalled
    /\ peer = NoHandle
    /\ observation = NoObservation

InitRules == Idle /\ Untouched

NextRules ==
    \/ \E name \in ProbeNames : CallValidatePropertyName(name)
    \/ \E options \in OptionInputs, name \in {N_Name, N_Probe} :
           CallValidateSelectionOptions(options, name)
    \/ \E name \in ProbeNames, definition \in DefinitionInputs :
           CallValidatePropertyStructure(name, definition)

SpecRules == InitRules /\ [][NextRules]_vars

-----------------------------------------------------------------------------
(* Calls of the metrics API *)

\* how far past HistoryLimit the recordings of one operation go
MaxOverflow == 2
\* the longest duration of the first recording of an operation
MaxFirstDuration == 2

MeasuredOperations == {O_schema_creation, O_query_execution, "render"}

\* how the measured function ends
FnOutcomes == {Returned(Num(1)), Threw(TypeError)}

RecordedNames == {RecordedName(operation, outcome) :
                      operation \in MeasuredOperations, outcome \in FnOutcomes}

\* An operation is recorded once next to the others, and up to MaxOverflow
\* times past HistoryLimit when it is the only one recorded.
Recordable(name) ==
    LET others == {n \in RecordedNames \ {name} : TimingsOf(history.timings, n) # <<>>} IN
    \/ /\ TimingsOf(history.timings, name) = <<>>
       /\ \A n \in others : Len(TimingsOf(history.timings, n)) = 1
    \/ others = {} /\ Len(TimingsOf(history.timings, name)) < HistoryLimit + MaxOverflow

\* the durations of the k+1st recording of an operation
DurationsAfter(k) == IF k = 0 THEN 0..MaxFirstDuration ELSE {k % (MaxFirstDuration + 2)}

InitMonitor == Idle /\ Untouched

NextMonitor ==
    \/ \E operation \in MeasuredOperations, outcome \in FnOutcomes :
           LET name == RecordedName(operation, outcome) IN
           /\ Recordable(name)
           /\ \E duration \in DurationsAfter(Len(TimingsOf(history.timings, name))) :
                  MeasurePerformance(operation, outcome, duration)
    \/ ResetPerformanceMetrics
    \/ GetMetrics

SpecMonitor == InitMonitor /\ [][NextMonitor]_vars


-----------------------------------------------------------------------------
(* Vocabulary of the properties below: the rules as the specification      *)
(* states them, written without the validators.                            *)

HasPropertyMap(c) ==
    c.kind = "object" /\ "properties" \in DOMAIN c /\ c.properties.kind = "map"

Entries(c) == c.properties.entries
PropertyCount(c) == Len(Entries(c))
DeclaredNames(c) == {Entries(c)[i].name : i \in DOMAIN Entries(c)}

DeclaresType(def, t) == def.kind = "object" /\ "type" \in DOMAIN def /\ def.type = Str(t)

TitleCount(c) ==
    Cardinality({i \in DOMAIN Entries(c) : DeclaresType(Entries(c)[i].def, T_title)})

\* ^[A-Za-z][A-Za-z0-9_ ]*$ and at most 100 characters
RuleName(name) ==
    /\ Len(name) > 0
    /\ Len(name) <= 100
    /\ name[1] \in Letter
    /\ \A k \in 2..Len(name) : name[k] \in Letter \cup Digit \cup {"_", " "}

\* a non-empty list of unique, non-blank strings
RuleOptions(options) ==
    /\ options.kind = "array"
    /\ Len(options.items) > 0
    /\ \A i \in DOMAIN options.items :
         /\ options.items[i].kind = "string"
         /\ \E k \in DOMAIN options.items[i].chars : options.items[i].chars[k] \notin WhiteSpace
    /\ \A i, j \in DOMAIN options.items : i # j => options.items[i] # options.items[j]

RuleDefinition(def) ==
    /\ \E t \in ValidTypes : DeclaresType(def, t)
    /\ (DeclaresType(def, T_number) /\ "format" \in DOMAIN def)
           => def.format \in {Str(T_number), Str(F_percent), Str(F_dollar)}
    /\ (DeclaresType(def, T_select) \/ DeclaresType(def, T_multi_select))
           => ("options" \in DOMAIN def /\ RuleOptions(def.options))

\* 36 characters, each a lowercase hex digit or a hyphen
RuleDatabaseId(c) ==
    /\ c.kind = "object"
    /\ "databaseId" \in DOMAIN c
    /\ c.databaseId.kind = "string"
    /\ Len(c.databaseId.chars) = 36
    /\ \A k \in 1..36 : c.databaseId.chars[k] \in
           {"0", "1", "2", "3", "4", "5", "6", "7", "8", "9", "a", "b", "c", "d", "e", "f", "-"}

RuleEntries(c) ==
    /\ HasPropertyMap(c)
    /\ \A i \in DOMAIN Entries(c) :
         RuleName(Entries(c)[i].name) /\ RuleDefinition(Entries(c)[i].def)

Range(seq) == {seq[i] : i \in DOMAIN seq}

Constructed == created.status = "returned" /\ handle # NoHandle
Rejected ==
    created.status = "threw" /\ created.error.name = "SchemaValidationError" /\ handle = NoHandle

-----------------------------------------------------------------------------
(* Properties *)

C2_SameAcceptance ==
    (created # NotCalled /\ result # NotCalled /\ config = DEFAULT_VALIDATION_CONFIG) =>
        (created.status = "returned" <=> result.value.isValid)

\* C3 (as claimed): every property name of a constructed handle is well
\* formed, and a literal with an ill-formed name is rejected at construction.
C3_NameInvariant ==
    /\ handle # NoHandle =>
           \A name \in DeclaredNames(handle.definition) : RuleName(name)
    /\ (created # NotCalled /\ HasPropertyMap(candidate)
            /\ \E name \in DeclaredNames(candidate) : ~RuleName(name)) => Rejected

\* C4 (as claimed): every select/multi_select property of a constructed handle
\* has a non-empty options list of unique, non-blank strings, and a literal
\* that breaks this is rejected at construction.
C4_OptionsInvariant ==
    LET Selection(def) == DeclaresType(def, T_select) \/ DeclaresType(def, T_multi_select)
        Good(def) == "options" \in DOMAIN def /\ RuleOptions(def.options)
    IN  /\ handle # NoHandle =>
               \A e \in Range(Entries(handle.definition)) : Selection(e.def) => Good(e.def)
        /\ (created # NotCalled /\ HasPropertyMap(candidate)
                /\ \E e \in Range(Entries(candidate)) : Selection(e.def) /\ ~Good(e.def))
               => Rejected

C6_DatabaseId ==
    LET rest == RuleEntries(candidate) /\ TitleCount(candidate) = 1
                    /\ PropertyCount(candidate) \in 1..20
        idErrors == {Msg("Database ID is required and must be a string", <<>>),
                     Msg("Database ID must be a valid UUID format", <<>>)}
    IN  /\ (result # NotCalled /\ candidate.kind = "object") =>
               /\ (Range(result.value.errors) \cap idErrors = {}) <=> RuleDatabaseId(candidate)
               /\ (rest /\ config = DEFAULT_VALIDATION_CONFIG) =>
                      (result.value.isValid <=> RuleDatabaseId(candidate))
        /\ (result # NotCalled /\ candidate.kind # "object") => ~result.value.isValid
        /\ created # NotCalled =>
               /\ Constructed => RuleDatabaseId(candidate)
               /\ ~RuleDatabaseId(candidate) => Rejected
               /\ (candidate.kind = "object" /\ rest) =>
                      (Constructed <=> RuleDatabaseId(candidate))

C6_Witness ==
    /\ candidate.kind = "object" /\ "databaseId" \in DOMAIN candidate
    /\ candidate.databaseId = Str(Rep("-", 36))
    /\ Constructed
    /\ result # NotCalled /\ result.value.isValid


\* the definition the literal declares under a name
Declared(c, name) ==
    Entries(c)[CHOOSE i \in DOMAIN Entries(c) : Entries(c)[i].name = name].def

ArgDeclared == handle # NoHandle /\ arg.name \in DeclaredNames(candidate)
ArgAbsent == arg.value.kind \in {"null", "undefined"}

\* C7 (as claimed): on a declared property the bound predicate returns true
\* exactly when validatePropertyValue returns, false exactly when it throws.
C7_SurfacesAgree ==
    (ArgDeclared /\ predicate # NotCalled /\ assertion # NotCalled) =>
        /\ predicate = Returned(TRUE) <=> assertion.status = "returned"
        /\ predicate = Returned(FALSE) <=> assertion.status = "threw"

\* C8: null and undefined are valid for a property of any variant, for
\* validatePropertyValue and for the bound predicate.
C8_NullIsValid ==
    (ArgDeclared /\ ArgAbsent) =>
        /\ predicate # NotCalled => predicate = Returned(TRUE)
        /\ assertion # NotCalled => assertion = Returned(Undefined)

C8_Witness ==
    /\ ArgDeclared
    /\ arg.value = Undefined
    /\ DeclaresType(Declared(candidate, arg.name), T_multi_select)
    /\ predicate = Returned(TRUE)
    /\ assertion = Returned(Undefined)

\* C9 (as claimed): the bound predicate returns false for a string that is
\* no valid email address on an email property, for a string that is no
\* absolute http/https URL on a url property, and for a list with an element
\* that is no valid user reference on a people property.
C9_PredicateChecksFormat ==
    (ArgDeclared /\ predicate # NotCalled) =>
        LET def == Declared(candidate, arg.name)
            v == arg.value
        IN  /\ (DeclaresType(def, T_email) /\ v.kind = "string" /\ ~isValidEmail(v.chars))
                   => predicate = Returned(FALSE)
            /\ (DeclaresType(def, T_url) /\ v.kind = "string" /\ ~isValidURL(v.chars))
                   => predicate = Returned(FALSE)
            /\ (DeclaresType(def, T_people) /\ v.kind = "array"
                    /\ \E i \in DOMAIN v.items : ~isValidNotionUser(v.items[i]))
                   => predicate = Returned(FALSE)

\* C10: for a select property with options O and a value v that is not
\* absent, validatePropertyValue returns exactly when v is a string in O; a
\* string outside O raises SelectionValidationError carrying v and the whole
\* of O in declared order; a value that is no string raises
\* PropertyValidationError.
C10_SelectMembership ==
    (ArgDeclared /\ assertion # NotCalled /\ ~ArgAbsent
         /\ DeclaresType(Declared(candidate, arg.name), T_select)) =>
        LET O == Declared(candidate, arg.name).options.items
            v == arg.value
            member == v.kind = "string" /\ \E i \in DOMAIN O : O[i] = v
        IN  /\ assertion.status = "returned" <=> member
            /\ (v.kind = "string" /\ ~member) =>
                   /\ assertion.status = "threw"
                   /\ assertion.error.name = "SelectionValidationError"
                   /\ assertion.error.code = "SELECTION_VALIDATION_ERROR"
                   /\ assertion.error.context.value = v
                   /\ assertion.error.context.validOptions = Arr(O)
            /\ v.kind # "string" =>
                   /\ assertion.status = "threw"
                   /\ assertion.error.name = "PropertyValidationError"

C10_Witness ==
    /\ ArgDeclared
    /\ arg = [name |-> N_Status, value |-> O_C]
    /\ assertion.status = "threw"
    /\ assertion.error.name = "SelectionValidationError"
    /\ assertion.error.context.validOptions = Arr(<<O_A, O_B>>)

\* C11: for a multi_select property with options O and a list of strings with
\* at least one element outside O, validatePropertyValue throws
\* SelectionValidationError whose value is the offending element of smallest
\* index and whose validOptions is O.
C11_FirstOffender ==
    (ArgDeclared /\ assertion # NotCalled
         /\ DeclaresType(Declared(candidate, arg.name), T_multi_select)
         /\ arg.value.kind = "array"
         /\ \A i \in DOMAIN arg.value.items : arg.value.items[i].kind = "string") =>
        LET O == Declared(candidate, arg.name).options.items
            items == arg.value.items
            Outside(i) == \A k \in DOMAIN O : O[k] # items[i]
        IN  (\E i \in DOMAIN items : Outside(i)) =>
                LET first == CHOOSE i \in DOMAIN items :
                                 Outside(i) /\ \A k \in 1..(i - 1) : ~Outside(k)
                IN  /\ assertion.status = "threw"
                    /\ assertion.error.name = "SelectionValidationError"
                    /\ assertion.error.code = "SELECTION_VALIDATION_ERROR"
                    /\ assertion.error.context.property = Str(arg.name)
                    /\ assertion.error.context.value = items[first]
                    /\ assertion.error.context.validOptions = Arr(O)

C11_Witness ==
    /\ ArgDeclared
    /\ arg = [name |-> N_Tags, value |-> Arr(<<O_Oops, O_Zap>>)]
    /\ Declared(candidate, N_Tags).options = Arr(<<O_Bug, O_Feature>>)
    /\ assertion.status = "threw"
    /\ assertion.error.context.value = O_Oops

\* the handle a call was made on, its input and its outcome
Callee == HandleOf(observation.who)
Called(op) == observation.op = op

\* C12 (as claimed): hasProperty(name) returns true exactly when the literal
\* of the handle declares name, and never throws.
C12_PureMembership ==
    Called("hasProperty") =>
        observation.outcome =
            Returned(Bool(observation.input.chars \in DeclaredNames(Callee.definition)))

\* C13 (as claimed): getProperty(name) throws PropertyAccessError with context
\* {property: name, schema: databaseId} for every name the literal does not
\* declare, and returns the declared definition for every name it declares.
C13_AccessSafety ==
    Called("getProperty") =>
        LET name == observation.input.chars IN
        IF name \in DeclaredNames(Callee.definition)
        THEN observation.outcome = Returned(Declared(Callee.definition, name))
        ELSE /\ observation.outcome.status = "threw"
             /\ observation.outcome.error.name = "PropertyAccessError"
             /\ observation.outcome.error.context =
                    [property |-> Str(name), schema |-> Callee.definition.databaseId]

\* C14: no method of a handle, whether it returns or throws, changes the
\* literal the handle wraps (its databaseId, its property names and their
\* order, every definition) or createdAt; lastQueryDuration changes only in a
\* call of _updateQueryDuration on that handle.  The first handle wraps the
\* literal it was constructed from.
C14_ReadyNeverTransitions ==
    /\ [](handle # NoHandle => handle.definition = candidate)
    /\ [][\A who \in Handles :
             LET before == HandleOf(who)
                 after == IF who = 1 THEN handle' ELSE peer'
             IN  before # NoHandle =>
                     /\ after # NoHandle
                     /\ after.definition = before.definition
                     /\ propertyNames(after) = propertyNames(before)
                     /\ after.createdAt = before.createdAt
                     /\ after.lastQueryDuration # before.lastQueryDuration =>
                            /\ observation'.op = "_updateQueryDuration"
                            /\ observation'.who = who]_vars

C14_Witness ==
    /\ handle # NoHandle /\ handle.definition = candidate
    /\ handle.createdAt = DateOf(0) /\ now = MaxClock
    /\ handle.lastQueryDuration = MaxDuration
    /\ Called("getProperty") /\ observation.who = 1
    /\ observation.outcome.status = "threw"

\* the entries of a literal in the order its text declares them
DeclaredEntries(c) == c.properties.declared

\* C19 (as claimed): propertyNames is the sequence of names in the order the
\* literal declares them; getPropertiesByType(tag) is the declared properties
\* of that type, in that order; over the 10 tags every declared property is
\* listed exactly once.
C19_DeclarationOrder ==
    /\ Called("propertyNames") =>
           LET D == DeclaredEntries(Callee.definition) IN
           observation.outcome = Returned(Arr([i \in DOMAIN D |-> Str(D[i].name)]))
    /\ Called("getPropertiesByType") =>
           LET HasTag(e) == DeclaresType(e.def, observation.input.chars)
               M == SelectSeq(DeclaredEntries(Callee.definition), HasTag)
           IN  observation.outcome =
                   Returned(Arr([i \in DOMAIN M |->
                                    Obj([name |-> Str(M[i].name), definition |-> M[i].def])]))
    /\ \A who \in Handles :
           HandleOf(who) # NoHandle =>
               \A e \in Range(DeclaredEntries(HandleOf(who).definition)) :
                   Cardinality({<<t, i>> \in ValidTypes \X (1..(MaxProperties + 1)) :
                                   /\ i <= Len(getPropertiesByType(HandleOf(who), t).items)
                                   /\ getPropertiesByType(HandleOf(who), t).items[i].name
                                          = Str(e.name)}) = 1

\* a step that is a call of a method of handle who
OwnCall(who) == observation' # observation /\ observation'.who = who

\* C20: a call on one handle leaves the other handle as it was; each handle
\* has lastQueryDuration 0 from its construction until _updateQueryDuration
\* is called on it; getPerformanceMetrics reports activeSchemaCount 1 and the
\* lastQueryDuration of its own handle; every other result is that of the
\* method applied to its own handle.
C20_HandlesDoNotInteract ==
    /\ [](Called("getPerformanceMetrics") =>
             /\ observation.outcome.status = "returned"
             /\ observation.outcome.value.activeSchemaCount = Num(1)
             /\ observation.outcome.value.lastQueryDuration = Num(Callee.lastQueryDuration))
    /\ [](Called("hasProperty") =>
             observation.outcome.value.b = hasProperty(Callee, observation.input.chars))
    /\ [](Called("getProperty") =>
             observation.outcome = getProperty(Callee, observation.input.chars))
    /\ [](Called("propertyNames") => observation.outcome.value.items = propertyNames(Callee))
    /\ [](Called("getTitleProperty") => observation.outcome = getTitleProperty(Callee))
    /\ [](Called("toJSON") =>
             observation.outcome.value.databaseId = Callee.definition.databaseId)
    /\ [][\A who \in Handles :
             LET before == HandleOf(who)
                 after == IF who = 1 THEN handle' ELSE peer'
             IN  /\ (before # NoHandle /\ ~OwnCall(who)) => after = before
                 /\ (before # NoHandle /\ before.lastQueryDuration = 0
                         /\ ~(OwnCall(who) /\ observation'.op = "_updateQueryDuration"))
                        => after.lastQueryDuration = 0
                 /\ (before = NoHandle /\ after # NoHandle) => after.lastQueryDuration = 0]_vars

C20_Witness ==
    /\ handle # NoHandle /\ peer # NoHandle
    /\ handle.definition.databaseId = peer.definition.databaseId
    /\ peer.lastQueryDuration = MaxDuration
    /\ handle.lastQueryDuration = 0
    /\ Called("getPerformanceMetrics") /\ observation.who = 1
    /\ observation.outcome.value.lastQueryDuration = Num(0)

\* C15 (as claimed): validateSchemaStructure returns a result for every
\* candidate and every configuration, without throwing, and isValid is true
\* exactly when the errors list is empty.
C15_TotalAndConsistent ==
    result # NotCalled =>
        /\ result.status = "returned"
        /\ result.value.isValid <=> result.value.errors = <<>>

\* the messages of the rules on the schema as a whole
M_IdRequired == Msg("Database ID is required and must be a string", <<>>)
M_IdFormat == Msg("Database ID must be a valid UUID format", <<>>)
M_TooFew(cfg) == Msg("Schema must have at least {0} property", <<Num(cfg.minProperties)>>)
M_TooMany(cfg) == Msg("Schema cannot have more than {0} properties", <<Num(cfg.maxProperties)>>)
M_NoTitle == Msg("Schema must have exactly one title property", <<>>)
M_Titles == Msg("Schema cannot have multiple title properties", <<>>)
M_Properties == Msg("Properties are required and must be an object", <<>>)

\* the properties whose structural check, run on the property alone, fails
FailingEntries(c) ==
    {i \in DOMAIN Entries(c) :
        validatePropertyStructure(Entries(c)[i].name, Entries(c)[i].def) # <<>>}

\* how many of the rules a literal violates under a configuration
ViolatedRules(c, cfg) ==
    (IF RuleDatabaseId(c) THEN 0 ELSE 1)
    + (IF PropertyCount(c) < cfg.minProperties THEN 1 ELSE 0)
    + (IF PropertyCount(c) > cfg.maxProperties THEN 1 ELSE 0)
    + (IF cfg.requireTitle /\ TitleCount(c) = 0 THEN 1 ELSE 0)
    + (IF ~cfg.allowMultipleTitles /\ TitleCount(c) > 1 THEN 1 ELSE 0)
    + Cardinality(FailingEntries(c))

\* C16: for a literal with a property map, the errors validateSchemaStructure
\* returns hold the error of every violated rule, whatever else is violated:
\* the databaseId error, each property count error, each title count error,
\* and for every property the errors of its structural check.
C16_ErrorsAccumulate ==
    (result.status = "returned" /\ HasPropertyMap(candidate)) =>
        LET errors == result.value.errors
            Reported(m) == m \in Range(errors)
        IN  /\ ~RuleDatabaseId(candidate) <=> (Reported(M_IdRequired) \/ Reported(M_IdFormat))
            /\ PropertyCount(candidate) < config.minProperties <=> Reported(M_TooFew(config))
            /\ PropertyCount(candidate) > config.maxProperties <=> Reported(M_TooMany(config))
            /\ (config.requireTitle /\ TitleCount(candidate) = 0) <=> Reported(M_NoTitle)
            /\ (~config.allowMultipleTitles /\ TitleCount(candidate) > 1) <=> Reported(M_Titles)
            /\ \A i \in DOMAIN Entries(candidate) :
                   LET own == validatePropertyStructure(Entries(candidate)[i].name,
                                                        Entries(candidate)[i].def)
                   IN  \E k \in 0..(Len(errors) - Len(own)) :
                           SubSeq(errors, k + 1, k + Len(own)) = own
            /\ Len(errors) >= ViolatedRules(candidate, config)
            /\ result.value.isValid <=> ViolatedRules(candidate, config) = 0

C16_Witness ==
    /\ result.status = "returned" /\ HasPropertyMap(candidate)
    /\ ~RuleDatabaseId(candidate)
    /\ PropertyCount(candidate) > config.maxProperties
    /\ config.requireTitle /\ TitleCount(candidate) = 0
    /\ Cardinality(FailingEntries(candidate)) >= 2
    /\ ViolatedRules(candidate, config) = 5
    /\ Len(result.value.errors) >= 5

\* C17 (as claimed): for an object whose properties field is absent or is no
\* object, validateSchemaStructure returns isValid = false and the single
\* error that properties must be an object, whatever databaseId is.
C17_ShortCircuit ==
    (result # NotCalled /\ candidate.kind = "object"
         /\ ("properties" \notin DOMAIN candidate
                 \/ candidate.properties.kind
                        \in {"undefined", "null", "string", "number", "boolean", "symbol"})) =>
        result = Returned([isValid |-> FALSE, errors |-> <<M_Properties>>])

\* C18 (as claimed): the error createTypedSchema throws for a literal is the
\* one validateSchema throws for it: SchemaValidationError with property
\* 'schema', expected 'valid schema structure' and received the joined error
\* messages; validateSchema throws it exactly when validateSchemaStructure
\* reports isValid = false.
C18_FailurePropagates ==
    /\ (created.status = "threw" /\ wrapped # NotCalled
            /\ wrapped.config = DEFAULT_VALIDATION_CONFIG) =>
           /\ wrapped.status = "threw"
           /\ created.error = wrapped.error
           /\ created.error.code = "SCHEMA_VALIDATION_ERROR"
           /\ created.error.context.property = Str(P_schema)
           /\ created.error.context.expected = "valid schema structure"
    /\ (wrapped # NotCalled /\ result.status = "returned" /\ wrapped.config = config) =>
           /\ wrapped.status = "threw" <=> ~result.value.isValid
           /\ wrapped.status = "threw" =>
                  wrapped.error =
                      SchemaValidationError(Str(P_schema), "valid schema structure",
                          Msg("Validation failed: {0}", <<Join(result.value.errors, ", ")>>))

\* local@domain.tld: one "@", no white space, something before the "@", and
\* after it a "." with something on both sides; at most 254 characters
RuleEmail(s) ==
    /\ Len(s) <= 254
    /\ Cardinality({i \in DOMAIN s : s[i] = "@"}) = 1
    /\ \A i \in DOMAIN s : s[i] \notin WhiteSpace
    /\ \E at \in 2..Len(s) :
           s[at] = "@" /\ \E dot \in (at + 2)..(Len(s) - 1) : s[dot] = "."

\* an absolute URL with scheme http or https: after leading white space the
\* scheme in any case, ":", any slashes, and a host name that runs to the
\* next "/", "\", "?" or "#" or to the trailing white space
RuleHttpUrl(s) ==
    /\ \E k \in DOMAIN s : s[k] \notin WhiteSpace
    /\ \E k \in DOMAIN s : s[k] = ":"
    /\ LET first == CHOOSE i \in DOMAIN s :
                         s[i] \notin WhiteSpace /\ \A k \in 1..(i - 1) : s[k] \in WhiteSpace
           last == CHOOSE i \in DOMAIN s :
                        s[i] \notin WhiteSpace /\ \A k \in (i + 1)..Len(s) : s[k] \in WhiteSpace
           colon == CHOOSE i \in DOMAIN s : s[i] = ":" /\ \A k \in 1..(i - 1) : s[k] # ":"
           AfterSlashes(i) == \A k \in (colon + 1)..(i - 1) : s[k] \in {"/", "\\"}
           InHost(i) == \A k \in (colon + 1)..i :
                            AfterSlashes(k) \/ s[k] \notin {"/", "\\", "?", "#"}
       IN  /\ first < colon
           /\ [k \in 1..(colon - first) |-> ToLowerCase(s[first + k - 1])]
                  \in {<<"h", "t", "t", "p">>, <<"h", "t", "t", "p", "s">>}
           /\ \E host \in (colon + 1)..last :
                  /\ AfterSlashes(host)
                  /\ s[host] \in Letter \cup Digit
           /\ \A i \in (colon + 1)..last :
                  (InHost(i) /\ s[i] \notin {"/", "\\"})
                      => s[i] \in Letter \cup Digit \cup {"-", ".", "_"}

\* C21: for an email (url) property and a value that is not absent,
\* validatePropertyValue returns exactly when the value is a string in the
\* format; a value that is no string fails with expectedType 'string', a
\* string outside the format with 'valid email address' ('valid URL').
C21_FormatChecked ==
    (ArgDeclared /\ assertion # NotCalled /\ ~ArgAbsent) =>
        LET def == Declared(candidate, arg.name)
            v == arg.value
            Fails(expectedType) ==
                /\ assertion.status = "threw"
                /\ assertion.error.name = "PropertyValidationError"
                /\ assertion.error.context =
                       [property |-> Str(arg.name), value |-> v, expectedType |-> expectedType]
        IN  /\ DeclaresType(def, T_email) =>
                   IF v.kind # "string" THEN Fails("string")
                   ELSE IF ~RuleEmail(v.chars) THEN Fails("valid email address")
                   ELSE assertion = Returned(Undefined)
            /\ DeclaresType(def, T_url) =>
                   IF v.kind # "string" THEN Fails("string")
                   ELSE IF ~RuleHttpUrl(v.chars) THEN Fails("valid URL")
                   ELSE assertion = Returned(Undefined)

C21_Witness ==
    /\ ArgDeclared
    /\ DeclaresType(Declared(candidate, arg.name), T_email)
    /\ arg.value.kind = "string" /\ Len(arg.value.chars) = 255
    /\ arg.value.chars[251] = "@"
    /\ assertion.status = "threw"
    /\ assertion.error.context.expectedType = "valid email address"

\* C22 (as claimed): for a number property and a value that is not absent,
\* validatePropertyValue and the bound predicate accept the value exactly
\* when it is a finite number (not NaN, not an infinity); every other value
\* fails with PropertyValidationError and expectedType 'number'.
C22_FiniteNumbers ==
    (ArgDeclared /\ ~ArgAbsent /\ DeclaresType(Declared(candidate, arg.name), T_number)) =>
        LET finite == arg.value.kind = "number" /\ arg.value.cls = "finite" IN
        /\ assertion # NotCalled =>
               IF finite THEN assertion = Returned(Undefined)
               ELSE /\ assertion.status = "threw"
                    /\ assertion.error.name = "PropertyValidationError"
                    /\ assertion.error.context.expectedType = "number"
        /\ predicate # NotCalled => predicate = Returned(finite)


\* what the last call of a rule returned, when it was the given rule
Ruled(rule) == checked # NotCalled /\ checked.rule = rule /\ checked.outcome.status = "returned"
RuleErrors == checked.outcome.value

\* C23: validatePropertyName(name) returns no error exactly when name is a
\* non-empty string of at most 100 characters that starts with a letter and
\* goes on with letters, digits, underscores and the space character only.
C23_NameRule ==
    Ruled("validatePropertyName") => (RuleErrors = <<>> <=> RuleName(checked.name))



M_OptionsArray(name) == Msg("Property '{0}': Options must be an array", <<Str(name)>>)
M_OptionsEmpty(name) == Msg("Property '{0}': Selection options cannot be empty", <<Str(name)>>)
M_OptionsStrings(name) == Msg("Property '{0}': All options must be strings", <<Str(name)>>)
M_OptionsBlank(name) == Msg("Property '{0}': Options cannot be empty strings", <<Str(name)>>)
M_OptionsUnique(name) == Msg("Property '{0}': Options must be unique", <<Str(name)>>)

\* the string elements of a list
StringsAt(items) == {i \in DOMAIN items : items[i].kind = "string"}

\* C24: validateSelectionOptions reports each violated condition on its own:
\* no error exactly for a non-empty list of distinct non-blank strings, only
\* the array error for a non-list, and for a list the empty, strings, blank
\* and unique errors each exactly when its condition is violated.
C24_OptionsCheck ==
    Ruled("validateSelectionOptions") =>
        LET options == checked.input
            name == checked.name
            errors == Range(RuleErrors)
        IN  /\ RuleErrors = <<>> <=> RuleOptions(options)
            /\ Len(RuleErrors) = Cardinality(errors)
            /\ options.kind # "array" => RuleErrors = <<M_OptionsArray(name)>>
            /\ options.kind = "array" =>
                   LET items == options.items IN
                   /\ M_OptionsArray(name) \notin errors
                   /\ M_OptionsEmpty(name) \in errors <=> Len(items) = 0
                   /\ M_OptionsStrings(name) \in errors <=>
                          \E i \in DOMAIN items : items[i].kind # "string"
                   /\ M_OptionsBlank(name) \in errors <=>
                          \E i \in StringsAt(items) :
                              \A k \in DOMAIN items[i].chars : items[i].chars[k] \in WhiteSpace
                   /\ M_OptionsUnique(name) \in errors <=>
                          \E i, j \in StringsAt(items) : i # j /\ items[i] = items[j]

\* a list with a number, a blank string and a repeated string gets the three
\* errors at once
C24_Witness ==
    /\ Ruled("validateSelectionOptions")
    /\ checked.input.kind = "array"
    /\ {M_OptionsStrings(checked.name), M_OptionsBlank(checked.name),
        M_OptionsUnique(checked.name)} \subseteq Range(RuleErrors)



\* the errors of the schema as a whole
SchemaErrors(cfg) ==
    {M_IdRequired, M_IdFormat, M_TooFew(cfg), M_TooMany(cfg), M_NoTitle, M_Titles, M_Properties}

\* the errors of the name rule
NameErrors ==
    {Msg("Property name must be a non-empty string", <<>>),
     Msg("Property name cannot exceed 100 characters", <<>>),
     Msg("Property name must start with a letter", <<>>),
     Msg("Property name can only contain letters, numbers, underscores, and spaces", <<>>)}

\* the error carries the name of one of the properties of the literal
NamesProperty(error, c) ==
    \E i \in DOMAIN Entries(c) : Str(Entries(c)[i].name) \in Range(error.args)

\* C25 (as claimed): every error validateSchemaStructure appends for a
\* property entry carries the name of the property.
C25_ErrorsNameProperty ==
    (result.status = "returned" /\ HasPropertyMap(candidate)) =>
        \A k \in DOMAIN result.value.errors :
            result.value.errors[k] \notin SchemaErrors(config) =>
                NamesProperty(result.value.errors[k], candidate)



\* C26: with t the number of properties of type title, validateSchemaStructure
\* reports the missing title exactly when the configuration requires a title
\* and t = 0, and reports multiple titles exactly when the configuration does
\* not allow them and t > 1; neither check depends on the other.
C26_TitleCountRule ==
    (result.status = "returned" /\ HasPropertyMap(candidate)) =>
        LET errors == Range(result.value.errors)
            t == TitleCount(candidate)
        IN  /\ M_NoTitle \in errors <=> (config.requireTitle /\ t = 0)
            /\ M_Titles \in errors <=> (~config.allowMultipleTitles /\ t > 1)
            /\ t = 0 => M_Titles \notin errors
            /\ (~config.requireTitle /\ config.allowMultipleTitles) =>
                   (M_NoTitle \notin errors /\ M_Titles \notin errors)

\* two titles are reported under a configuration that requires none
C26_Witness ==
    /\ result.status = "returned" /\ HasPropertyMap(candidate)
    /\ ~config.requireTitle /\ ~config.allowMultipleTitles
    /\ TitleCount(candidate) = 2
    /\ M_Titles \in Range(result.value.errors)
    /\ M_NoTitle \notin Range(result.value.errors)



\* the format of a number definition is reported as invalid
FormatReported ==
    \E k \in DOMAIN RuleErrors : RuleErrors[k].tmpl = "Property '{0}': Invalid number format '{1}'"

\* C27 (as claimed): for a definition of type number, validatePropertyStructure
\* reports an invalid format exactly when the definition has a format field
\* whose value is none of 'number', 'percent', 'dollar'.
C27_NumberFormatRule ==
    (Ruled("validatePropertyStructure") /\ DeclaresType(checked.input, T_number)) =>
        (FormatReported <=>
            /\ "format" \in DOMAIN checked.input
            /\ checked.input.format \notin {Str(T_number), Str(F_percent), Str(F_dollar)})



\* the title properties a handle holds
TitlesOf(h) ==
    {i \in DOMAIN Entries(h.definition) : DeclaresType(Entries(h.definition)[i].def, T_title)}

\* C28 (as claimed): on every handle createTypedSchema returned, whatever was
\* called on it before, getTitleProperty returns the one declared property of
\* type title, its name and its definition, and does not throw.
C28_TitleNeverThrows ==
    observation.op = "getTitleProperty" =>
        LET h == HandleOf(observation.who) IN
        /\ Cardinality(TitlesOf(h)) = 1
        /\ \A i \in TitlesOf(h) :
               observation.outcome = Returned(NamedDefinition(Entries(h.definition)[i]))



\* the last n elements of a list, all of them when it is shorter
LastOf(seq, n) ==
    IF Len(seq) <= n THEN seq ELSE SubSeq(seq, Len(seq) - n + 1, Len(seq))

\* C29: the timings the monitor keeps for an operation are the most recent
\* recordings of that operation since the last reset, at most 100 of them, in
\* the order they were recorded; an operation never recorded has no timings.
C29_BoundedTimings ==
    /\ DOMAIN monitor.operationTimings = DOMAIN history.timings
    /\ \A name \in DOMAIN history.timings :
           /\ Len(monitor.operationTimings[name]) <= 100
           /\ monitor.operationTimings[name] = LastOf(history.timings[name], 100)

\* an operation was recorded more than 100 times and its oldest timings are gone
C29_Witness ==
    \E name \in DOMAIN history.timings :
        /\ Len(history.timings[name]) > 101
        /\ Len(monitor.operationTimings[name]) = 100
        /\ monitor.operationTimings[name][1] # history.timings[name][1]
        /\ monitor.operationTimings[name] # history.timings[name]



\* the step is a call of measurePerformance whose function throws
MeasuredThrow == measured'.op = "measurePerformance" /\ measured'.outcome.status = "threw"

\* C30: the activeSchemaCount of getPerformanceMetrics() is the number of
\* schema creations measured to completion since the last reset; a measured
\* function that throws leaves the count alone, its duration goes under
\* '<operation>_error' only and the call ends with the same error; only reset
\* makes the count smaller, and after reset all three metrics are 0.
C30_SchemaCounter ==
    /\ [](getMetrics(monitor).activeSchemaCount = history.creations)
    /\ [](measured.op = "getPerformanceMetrics" =>
              measured.value.activeSchemaCount = history.creations)
    /\ [](measured.op = "resetPerformanceMetrics" =>
              getMetrics(monitor) = [schemaProcessingTime |-> Zero, activeSchemaCount |-> 0,
                                     lastQueryDuration |-> 0])
    /\ [][MeasuredThrow =>
              LET operation == measured'.operation
                  before == monitor.operationTimings
                  after == monitor'.operationTimings
              IN  /\ monitor'.schemaCount = monitor.schemaCount
                  /\ monitor'.totalProcessingTime = monitor.totalProcessingTime
                  /\ monitor'.lastQueryDuration = monitor.lastQueryDuration
                  /\ TimingsOf(after, operation) = TimingsOf(before, operation)
                  /\ DOMAIN after = DOMAIN before \cup {operation \o "_error"}
                  /\ \A name \in DOMAIN before :
                         name # operation \o "_error" => after[name] = before[name]
                  /\ measured'.outcome.error = TypeError]_vars
    /\ [][monitor'.schemaCount < monitor.schemaCount =>
              measured'.op = "resetPerformanceMetrics"]_vars

\* one creation completed and one threw, and the metrics count one schema
C30_Witness ==
    /\ measured.op = "getPerformanceMetrics"
    /\ history.creations = 1
    /\ "schema_creation_error" \in DOMAIN monitor.operationTimings
    /\ measured.value.activeSchemaCount = 1


=============================================================================
